---- MODULE Spec2Model ----
(***************************************************************************)
(* A model of the AP-coordinate loaders, the placeholder path-loss         *)
(* estimator, the coverage aggregator and the command-line entry points of *)
(* the sionna-simulation scripts.                                          *)
(*                                                                         *)
(* Units.  TLC has 32-bit integers and no floats, so every float of the    *)
(* scripts is carried as a scaled integer:                                 *)
(*   - positions and grid steps in half metres (0.5 m = 1),                *)
(*   - distances in centimetres,                                           *)
(*   - frequencies in MHz,                                                 *)
(*   - powers and losses in centi-dB (1 dB = 100),                         *)
(*   - -inf (numpy's log10(0)) as the absorbing value NegInf.              *)
(* Text is carried as sequences of one-character strings, so that strip,   *)
(* split and float() are computed and not assumed.                         *)
(***************************************************************************)
EXTENDS Integers, Sequences, FiniteSets, TLC

VARIABLES
    prog,             \* the function or script under execution
    pc,               \* its position
    \* calculate_path_loss
    distance, frequency, obstacles, total_loss,
    \* simulate_coverage_grid
    aps, grid_resolution, x_grid, y_grid, signal_strength, best_ap, i,
    previous,         \* what an earlier call returned, <<>> before any
    \* loaders and main()s
    mode, ap_file_given, file_exists, readable, file, row_num,
    transmitters, errors, is_valid, raised, success, exit_code, created,
    \* ap_to_sionna_pipeline in pipeline mode
    building_and_date, pipeline_script, caller, results,
    \* demo_lightweight.analyze_building_scene
    info,
    \* sionna_full_simulation
    args,             \* the parsed command line
    exists,           \* the paths that exist
    failing,          \* the external tool that exits non-zero, "" for none
    log,              \* the steps started and the messages printed
    num_transmitters,
    tree,             \* the parsed Mitsuba document of correct_orientation
    \* demo_with_custom_aps.main
    available_scenes, scene_file,
    \* real_building_coverage: the report and the per-transmitter panels
    statistics, individual,
    \* prepare_sionna_simulation: the file written and its validation
    sionna_transmitter_file, revalidated

plVars   == <<distance, frequency, obstacles, total_loss>>
covVars  == <<aps, grid_resolution, x_grid, y_grid, signal_strength, best_ap, i,
              previous>>
mainVars == <<mode, ap_file_given, file_exists, readable, file, row_num,
              transmitters, errors, is_valid, raised, success, exit_code, created>>
\* mainVars without exit_code
mainCommon == <<mode, ap_file_given, file_exists, readable, file, row_num,
                transmitters, errors, is_valid, raised, success, created>>
pipeVars == <<building_and_date, pipeline_script, caller, results>>
sceneVars == <<info>>
fullVars == <<args, exists, failing, log, num_transmitters>>
xmlVars  == <<tree>>
customVars == <<available_scenes, scene_file>>
reportVars == <<statistics, individual>>
roundVars == <<sionna_transmitter_file, revalidated>>
vars     == <<prog, pc, plVars, covVars, mainVars, pipeVars, sceneVars,
              fullVars, xmlVars,
              customVars, reportVars, roundVars>>

----------------------------------------------------------------------------
(* Bounds of the model *)

MaxDistance == 40
MaxObstacles == 2
MaxAPs == 2
MaxRows == 2
MaxSceneLines == 3
MaxChildren == 3
MaxShapes == 2

----------------------------------------------------------------------------
(* Floats *)

\* numpy's -inf: below every finite value, absorbing under + and *.
NegInf == -1000000000

FAdd(a, b) == IF a = NegInf \/ b = NegInf THEN NegInf ELSE a + b

IsFinite(a) == a # NegInf

RECURSIVE FloorLog2(_)
FloorLog2(n) == IF n < 2 THEN 0 ELSE 1 + FloorLog2(n \div 2)

RECURSIVE Pow2(_)
Pow2(k) == IF k = 0 THEN 1 ELSE 2 * Pow2(k - 1)

\* The k fraction bits of log2(m / 4096), m in [4096, 8192), by repeated squaring.
RECURSIVE Log2Frac(_, _)
Log2Frac(m, k) ==
    IF k = 0 THEN 0
    ELSE LET s == (m * m) \div 4096
         IN  IF s >= 8192 THEN Pow2(k - 1) + Log2Frac(s \div 2, k - 1)
                          ELSE Log2Frac(s, k - 1)

\* log2(n) in units of 1/1024, for 1 <= n < 2^19.
Log2Fix(n) ==
    LET e == FloorLog2(n)
    IN  e * 1024 + Log2Frac((n * 4096) \div Pow2(e), 10)

\* 20 * np.log10(n) in centi-dB; log10(0) is -inf.
Log10x20(n) == IF n <= 0 THEN NegInf ELSE (Log2Fix(n) * 60206) \div 102400

\* floor(sqrt(n)) by bisection on [lo, hi).
RECURSIVE SqrtBetween(_, _, _)
SqrtBetween(n, lo, hi) ==
    IF hi - lo <= 1 THEN lo
    ELSE LET mid == (lo + hi) \div 2
         IN  IF mid * mid <= n THEN SqrtBetween(n, mid, hi)
                               ELSE SqrtBetween(n, lo, mid)

ISqrt(n) == SqrtBetween(n, 0, 46341)

----------------------------------------------------------------------------
(* calculate_path_loss *)

\* 20*log10(4*pi/c) with c = 3e8, in centi-dB.
FriisConst == -14756

\* The unit conversions: 20*log10 of cm -> m, and of MHz -> Hz.
CmToMetreDb == -4000
MHzToHzDb == 12000

\* 10 dB per major obstacle.
ObstacleDb == 1000

\* The guard of calculate_path_loss with the boundary case left out.
calculate_path_loss_strict(d, f, o) ==
    IF d < 0 THEN 0
    ELSE LET fspl_db == FAdd(FAdd(FAdd(Log10x20(d), CmToMetreDb),
                                  FAdd(Log10x20(f), MHzToHzDb)), FriisConst)
             obstacle_loss == o * ObstacleDb
         IN  FAdd(fspl_db, obstacle_loss)

calculate_path_loss(d, f, o) ==
    IF d <= 0 THEN 0
    ELSE LET fspl_db == FAdd(FAdd(FAdd(Log10x20(d), CmToMetreDb),
                                  FAdd(Log10x20(f), MHzToHzDb)), FriisConst)
             obstacle_loss == o * ObstacleDb
         IN  FAdd(fspl_db, obstacle_loss)

\* The carrier frequencies tried, in MHz.
Frequencies == {900, 2400, 5000}

----------------------------------------------------------------------------
(* The idle values of the variables a specification does not use *)

PLIdle ==
    /\ distance = 0 /\ frequency = 0 /\ obstacles = 0 /\ total_loss = 0

CovIdle ==
    /\ aps = <<>> /\ grid_resolution = 0 /\ x_grid = <<>> /\ y_grid = <<>>
    /\ signal_strength = <<>> /\ best_ap = <<>> /\ i = 0 /\ previous = <<>>

MainIdle ==
    /\ mode = "" /\ ap_file_given = FALSE /\ file_exists = FALSE
    /\ readable = FALSE /\ file = <<>> /\ row_num = 0
    /\ transmitters = <<>> /\ errors = <<>> /\ is_valid = FALSE
    /\ raised = FALSE /\ success = FALSE /\ exit_code = -1 /\ created = {}

PipeIdle ==
    /\ building_and_date = FALSE /\ pipeline_script = "" /\ caller = ""
    /\ results = <<>>

SceneIdle == info = <<>>

XmlIdle == tree = <<>>

CustomIdle == available_scenes = <<>> /\ scene_file = ""

ReportIdle == statistics = <<>> /\ individual = <<>>

RoundIdle == sionna_transmitter_file = <<>> /\ revalidated = <<>>

FullIdle ==
    /\ args = <<>> /\ exists = {} /\ failing = "" /\ log = <<>>
    /\ num_transmitters = 0

----------------------------------------------------------------------------
(* SpecPL: calculate_path_loss applied to bounded inputs *)

InitPL ==
    /\ prog = "calculate_path_loss" /\ pc = "call"
    /\ distance \in -1..MaxDistance
    /\ frequency \in Frequencies
    /\ obstacles \in 0..MaxObstacles
    /\ total_loss = 0
    /\ CovIdle /\ MainIdle /\ PipeIdle /\ SceneIdle /\ FullIdle /\ XmlIdle
    /\ CustomIdle /\ ReportIdle /\ RoundIdle

CallPathLoss ==
    /\ prog = "calculate_path_loss" /\ pc = "call"
    /\ total_loss' = calculate_path_loss(distance, frequency, obstacles)
    /\ pc' = "done"
    /\ UNCHANGED <<prog, distance, frequency, obstacles, covVars, mainVars,
                   pipeVars, sceneVars,
                   fullVars, xmlVars,
                   customVars, reportVars, roundVars>>

NextPL == CallPathLoss

SpecPL == InitPL /\ [][NextPL]_vars

\* C10: calculate_path_loss returns exactly 0 at distance 0, for every
\* frequency and obstacle count, and the result is finite (log10(0) = -inf
\* never enters it).
C10_ZeroDistanceZeroLoss ==
    (prog = "calculate_path_loss" /\ pc = "done" /\ distance = 0)
        => (total_loss = 0 /\ IsFinite(total_loss))

\* A call at distance 0 with obstacles on the path has returned.
C10_Witness ==
    /\ prog = "calculate_path_loss" /\ pc = "done"
    /\ distance = 0 /\ obstacles > 0 /\ total_loss = 0

----------------------------------------------------------------------------
(* simulate_coverage_grid (real_building_coverage) *)

\* The margin around the APs' bounding box, 20 m, in half metres.
GridMargin == 40

\* The receiver height, 1.5 m, in half metres.
ReceiverHeight == 3

\* One wall beyond 15 m, two beyond 30 m, in centimetres.
OneWallBeyond == 1500
TwoWallsBeyond == 3000

\* One half metre in centimetres, squared.
HalfMetreSqCm == 2500

\* The transmitter record load_ap_coordinates builds: 2.4 GHz, 20 dBm.
LoadedAP(name, x, y, z) ==
    [name |-> name, position |-> <<x, y, z>>, frequency |-> 2400, power_dbm |-> 2000]

RECURSIVE SeqMin(_, _)
SeqMin(s, k) ==
    IF k = 1 THEN s[1]
    ELSE LET m == SeqMin(s, k - 1) IN IF s[k] < m THEN s[k] ELSE m

RECURSIVE SeqMax(_, _)
SeqMax(s, k) ==
    IF k = 1 THEN s[1]
    ELSE LET m == SeqMax(s, k - 1) IN IF s[k] > m THEN s[k] ELSE m

\* np.arange(start, stop, step): ceil((stop - start) / step) samples
\* start + k*step.  The positions and steps of the model are multiples of
\* 0.5 m, on which the float arithmetic of the quotient is exact.
arange(start, stop, step) ==
    LET n == IF stop <= start THEN 0 ELSE (stop - start + step - 1) \div step
    IN  [k \in 1..n |-> start + (k - 1) * step]

Cells == (1..Len(x_grid)) \X (1..Len(y_grid))

\* np.sqrt((X - ap_x)**2 + (Y - ap_y)**2 + (ap_z - 1.5)**2), in centimetres.
distances(ap, X, Y) ==
    LET dx == X - ap.position[1]
        dy == Y - ap.position[2]
        dz == ap.position[3] - ReceiverHeight
    IN  ISqrt(HalfMetreSqCm * (dx * dx + dy * dy + dz * dz))

obstacles_at(d) ==
    IF d > TwoWallsBeyond THEN 2 ELSE IF d > OneWallBeyond THEN 1 ELSE 0

\* ap['power_dbm'] - path_loss at the grid point (X, Y).
received_power(ap, X, Y) ==
    LET d == distances(ap, X, Y)
    IN  ap.power_dbm - calculate_path_loss(d, ap.frequency, obstacles_at(d))

\* The positions tried, in half metres: x, y in {0 m, 10 m}, z in {1.5 m, 3 m};
\* the grid steps tried: 5 m, 10 m and, wider than the margin, 50 m.
Xs == {0, 20}
Ys == {0, 20}
Zs == {3, 6}
Resolutions == {10, 20, 100}

APChoices == {LoadedAP("AP", x, y, z) : x \in Xs, y \in Ys, z \in Zs}

\* The end-to-end scenario: AP_01 at (5,10,3), AP_02 at (15,20,3), 1 m grid.
Scenario ==
    [aps |-> <<LoadedAP("AP_01", 10, 20, 6), LoadedAP("AP_02", 30, 40, 6)>>,
     grid_resolution |-> 2]

InitCov ==
    /\ prog = "simulate_coverage_grid" /\ pc = "start"
    /\ \/ /\ aps \in UNION {[1..n -> APChoices] : n \in 0..MaxAPs}
          /\ grid_resolution \in Resolutions
       \/ /\ aps = Scenario.aps
          /\ grid_resolution = Scenario.grid_resolution
    /\ x_grid = <<>> /\ y_grid = <<>>
    /\ signal_strength = <<>> /\ best_ap = <<>> /\ i = 0 /\ previous = <<>>
    /\ PLIdle /\ MainIdle /\ PipeIdle /\ SceneIdle /\ FullIdle /\ XmlIdle
    /\ CustomIdle /\ ReportIdle /\ RoundIdle

\* Lines 112-124: the grid and the initial maps.  np.min of an empty array raises.
SetupGrid ==
    /\ prog = "simulate_coverage_grid" /\ pc = "start"
    /\ IF Len(aps) = 0
       THEN /\ pc' = "raised"
            /\ UNCHANGED <<x_grid, y_grid, signal_strength, best_ap>>
       ELSE LET xs == [k \in 1..Len(aps) |-> aps[k].position[1]]
                ys == [k \in 1..Len(aps) |-> aps[k].position[2]]
                x_min == SeqMin(xs, Len(xs)) - GridMargin
                y_min == SeqMin(ys, Len(ys)) - GridMargin
                x_max == SeqMax(xs, Len(xs)) + GridMargin
                y_max == SeqMax(ys, Len(ys)) + GridMargin
                xg == arange(x_min, x_max, grid_resolution)
                yg == arange(y_min, y_max, grid_resolution)
            IN  /\ x_grid' = xg
                /\ y_grid' = yg
                /\ signal_strength' = [c \in (1..Len(xg)) \X (1..Len(yg)) |-> 0]
                /\ best_ap' = [c \in (1..Len(xg)) \X (1..Len(yg)) |-> -1]
                /\ pc' = "loop"
    /\ i' = 0
    /\ UNCHANGED <<prog, aps, grid_resolution, previous, plVars, mainVars,
                   pipeVars, sceneVars,
                   fullVars, xmlVars,
                   customVars, reportVars, roundVars>>

\* The comparison left out: every AP overwrites the cell, the last one stays.
stronger_signal_last(received, current) == TRUE

\* Line 149: received_power > signal_strength.
stronger_signal(received, current) == received > current

\* The loop iteration with line 151 left out: the signal is kept, the AP
\* that gave it is not recorded.
ProcessAP_unrecorded ==
    /\ prog = "simulate_coverage_grid" /\ pc = "loop"
    /\ i < Len(aps)
    /\ LET ap == aps[i + 1]
           rp == [c \in Cells |-> received_power(ap, x_grid[c[1]], y_grid[c[2]])]
       IN  signal_strength' = [c \in Cells |->
                                 IF stronger_signal(rp[c], signal_strength[c])
                                 THEN rp[c] ELSE signal_strength[c]]
    /\ i' = i + 1
    /\ UNCHANGED <<prog, pc, aps, grid_resolution, x_grid, y_grid, best_ap,
                   previous, plVars, mainVars, pipeVars, sceneVars,
                   fullVars, xmlVars,
                   customVars, reportVars, roundVars>>

\* Lines 130-151: one iteration of the loop over the APs (i counts from 0).
ProcessAP ==
    /\ prog = "simulate_coverage_grid" /\ pc = "loop"
    /\ i < Len(aps)
    /\ LET ap == aps[i + 1]
           rp == [c \in Cells |-> received_power(ap, x_grid[c[1]], y_grid[c[2]])]
           st == [c \in Cells |-> stronger_signal(rp[c], signal_strength[c])]
       IN  /\ signal_strength' = [c \in Cells |->
                                    IF st[c] THEN rp[c] ELSE signal_strength[c]]
           /\ best_ap' = [c \in Cells |-> IF st[c] THEN i ELSE best_ap[c]]
    /\ i' = i + 1
    /\ UNCHANGED <<prog, pc, aps, grid_resolution, x_grid, y_grid, previous,
                   plVars, mainVars, pipeVars, sceneVars,
                   fullVars, xmlVars,
                   customVars, reportVars, roundVars>>

\* Lines 153-171: the loop is over and the maps are returned.
ReturnCoverage ==
    /\ prog = "simulate_coverage_grid" /\ pc = "loop"
    /\ i = Len(aps)
    /\ pc' = "done"
    /\ UNCHANGED <<prog, covVars, plVars, mainVars, pipeVars, sceneVars,
                   fullVars, xmlVars,
                   customVars, reportVars, roundVars>>

NextCov == SetupGrid \/ ProcessAP \/ ReturnCoverage

SpecCov == InitCov /\ [][NextCov]_vars

\* The per-AP estimates at a cell, as a set.
Estimates(c) ==
    {received_power(aps[k], x_grid[c[1]], y_grid[c[2]]) : k \in 1..Len(aps)}

MaxOf(S) == CHOOSE m \in S : \A v \in S : m >= v

CovDone == prog = "simulate_coverage_grid" /\ pc = "done"

\* C1: for every non-empty AP list and every cell, the returned
\* signal_strength is the maximum over the APs of power_dbm - path_loss there,
\* whatever the sign of the estimates.
C1_SignalIsMaxOfEstimates ==
    CovDone => \A c \in Cells : signal_strength[c] = MaxOf(Estimates(c))

\* The index of 5 m (10 half metres) on the scenario's x axis and of 10 m on
\* its y axis; likewise 15 m and 20 m.
IndexOf(grid, v) == CHOOSE k \in 1..Len(grid) : grid[k] = v

\* C2: in the end-to-end scenario the cell nearest (5,10) holds the index of
\* AP_01 and the cell nearest (15,20) the index of AP_02.
C2_ScenarioWinners ==
    (CovDone /\ aps = Scenario.aps /\ grid_resolution = Scenario.grid_resolution)
        => /\ best_ap[<<IndexOf(x_grid, 10), IndexOf(y_grid, 20)>>] = 0
           /\ best_ap[<<IndexOf(x_grid, 30), IndexOf(y_grid, 40)>>] = 1

\* C3: after the run, at every cell best_ap is a valid index and
\* signal_strength is that AP's received power there; -1 never survives.
C3_BestApAchievesSignal ==
    CovDone => \A c \in Cells :
        /\ best_ap[c] \in 0..(Len(aps) - 1)
        /\ signal_strength[c]
             = received_power(aps[best_ap[c] + 1], x_grid[c[1]], y_grid[c[2]])

----------------------------------------------------------------------------
(* Text: a string is a sequence of one-character strings *)

RECURSIVE lstrip(_)
lstrip(s) == IF s # <<>> /\ Head(s) = " " THEN lstrip(Tail(s)) ELSE s

RECURSIVE rstrip(_)
rstrip(s) ==
    IF s # <<>> /\ s[Len(s)] = " " THEN rstrip(SubSeq(s, 1, Len(s) - 1)) ELSE s

\* str.strip()
strip(s) == rstrip(lstrip(s))

\* str.split(sep): always at least one field.
RECURSIVE split(_, _)
split(s, sep) ==
    IF \A k \in 1..Len(s) : s[k] # sep THEN <<s>>
    ELSE LET k == CHOOSE j \in 1..Len(s) :
                      s[j] = sep /\ \A h \in 1..(j - 1) : s[h] # sep
         IN  <<SubSeq(s, 1, k - 1)>> \o split(SubSeq(s, k + 1, Len(s)), sep)

RECURSIVE join(_, _)
join(fields, sep) ==
    IF Len(fields) = 0 THEN <<>>
    ELSE IF Len(fields) = 1 THEN fields[1]
    ELSE fields[1] \o <<sep>> \o join(Tail(fields), sep)

Quote == "\""

\* csv.reader in its default dialect: what one character does to the state of
\* the reader, the field under construction and the fields finished.  A field
\* that starts with a double quote runs to the closing quote, a doubled quote
\* inside it is one quote, and a quote elsewhere is an ordinary character.
csv_step(c, state, field, fields) ==
    LET ends   == c = "," /\ state # "IN_QUOTED_FIELD"
        opens  == c = Quote /\ state = "START_FIELD"
        closes == c = Quote /\ state = "IN_QUOTED_FIELD"
    IN  [state  |-> IF ends THEN "START_FIELD"
                    ELSE IF opens THEN "IN_QUOTED_FIELD"
                    ELSE IF closes THEN "QUOTE_IN_QUOTED_FIELD"
                    ELSE IF state = "IN_QUOTED_FIELD" THEN "IN_QUOTED_FIELD"
                    ELSE IF state = "QUOTE_IN_QUOTED_FIELD" /\ c = Quote
                    THEN "IN_QUOTED_FIELD"
                    ELSE "IN_FIELD",
         field  |-> IF ends THEN <<>>
                    ELSE IF opens \/ closes THEN field
                    ELSE Append(field, c),
         fields |-> IF ends THEN Append(fields, field) ELSE fields]

\* The fields of a line from position k on, the reader being in s.  (No file
\* tried leaves a quote open at the end of a line.)
RECURSIVE csv_parse(_, _, _)
csv_parse(line, k, s) ==
    IF k > Len(line) THEN Append(s.fields, s.field)
    ELSE CHOOSE row \in
             {csv_parse(line, k + 1, t) :
                  t \in {csv_step(line[k], s.state, s.field, s.fields)}} : TRUE

\* One record of csv.reader: an empty line is the empty list, any other line
\* the list of its fields.
csv_row(line) ==
    IF line = <<>> THEN <<>>
    ELSE csv_parse(line, 1,
                   [state |-> "START_FIELD", field |-> <<>>, fields |-> <<>>])

Digits == {"0", "1", "2", "3", "4", "5", "6", "7", "8", "9"}

DigitValue(ch) ==
    CASE ch = "0" -> 0 [] ch = "1" -> 1 [] ch = "2" -> 2 [] ch = "3" -> 3
      [] ch = "4" -> 4 [] ch = "5" -> 5 [] ch = "6" -> 6 [] ch = "7" -> 7
      [] ch = "8" -> 8 [] ch = "9" -> 9

AllDigits(s) == \A k \in 1..Len(s) : s[k] \in Digits

RECURSIVE IntValue(_)
IntValue(s) ==
    IF s = <<>> THEN 0
    ELSE 10 * IntValue(SubSeq(s, 1, Len(s) - 1)) + DigitValue(s[Len(s)])

\* float(s) in tenths, or a ValueError: surrounding blanks are ignored, then an
\* optional sign, digits and at most one point with at least one digit.  (The
\* files tried hold no exponent, "inf", "nan" or underscore, and at most one
\* decimal.)
float(s) ==
    LET t      == strip(s)
        signed == t # <<>> /\ Head(t) \in {"-", "+"}
        body   == IF signed THEN Tail(t) ELSE t
        parts  == split(body, ".")
        whole  == parts[1]
        frac   == IF Len(parts) = 2 THEN parts[2] ELSE <<>>
        ok     == /\ Len(parts) <= 2
                  /\ AllDigits(whole) /\ AllDigits(frac)
                  /\ Len(whole) + Len(frac) >= 1
        mag    == 10 * IntValue(whole)
                    + (IF frac = <<>> THEN 0 ELSE DigitValue(frac[1]))
    IN  IF ok
        THEN [ok |-> TRUE, value |-> IF signed /\ Head(t) = "-" THEN -mag ELSE mag]
        ELSE [ok |-> FALSE, value |-> 0]

\* x, y, z = map(float, row[1:4]): the three values, or the ValueError.
floats(row) ==
    LET x == float(row[2])
        y == float(row[3])
        z == float(row[4])
    IN  [ok |-> x.ok /\ y.ok /\ z.ok, value |-> <<x.value, y.value, z.value>>]

----------------------------------------------------------------------------
(* The AP files tried *)

LineA        == join(<< <<"A">>, <<"1">>, <<"2">>, <<"3">> >>, ",")
LineB        == join(<< <<"B">>, <<"2", ".", "5">>, <<"1">>, <<"3">> >>, ",")
LinePadded   == join(<< <<" ", "B", " ">>, <<"1">>, <<" ", "2">>, <<"3">> >>, ",")
LineComment  == join(<< <<"#", "A">>, <<"1">>, <<"2">>, <<"3">> >>, ",")
LineNoName   == join(<< <<>>, <<"1">>, <<"2">>, <<"3">> >>, ",")
LineShort    == join(<< <<"A">>, <<"1">>, <<"2">> >>, ",")
LineBadCoord == join(<< <<"A">>, <<"x">>, <<"2">>, <<"3">> >>, ",")
LineBlank    == <<>>

Lines == {LineA, LineB, LinePadded, LineComment, LineNoName, LineShort,
          LineBadCoord, LineBlank}

Files == UNION {[1..n -> Lines] : n \in 0..MaxRows}

\* What each line is, read by eye against the input format name,x,y,z
\* (coordinates in tenths).  For a csv.reader loader a line that starts with #
\* is a record like any other.
ParseableLines == {LineA, LineB, LinePadded, LineComment, LineNoName}
ValidLines     == {LineA, LineB, LinePadded, LineComment}

ExpectedTransmitter(line) ==
    CASE line = LineA       -> << <<"A">>, <<10, 20, 30>> >>
      [] line = LineB       -> << <<"B">>, <<25, 10, 30>> >>
      [] line = LinePadded  -> << <<"B">>, <<10, 20, 30>> >>
      [] line = LineComment -> << <<"#", "A">>, <<10, 20, 30>> >>

RECURSIVE ExpectedTransmitters(_)
ExpectedTransmitters(f) ==
    IF f = <<>> THEN <<>>
    ELSE (IF Head(f) \in ValidLines THEN <<ExpectedTransmitter(Head(f))>> ELSE <<>>)
             \o ExpectedTransmitters(Tail(f))

----------------------------------------------------------------------------
(* The loaders, one row at a time *)

\* validate_ap_coordinates, lines 44-57, with a coordinate error not recorded.
validate_row_silent(row, n, T, E) ==
    IF Len(row) < 4
    THEN [transmitters |-> T, errors |-> Append(E, <<n, "Insufficient columns">>)]
    ELSE LET name == strip(row[1]) IN
         IF name = <<>>
         THEN [transmitters |-> T, errors |-> Append(E, <<n, "Empty AP name">>)]
         ELSE LET xyz == floats(row) IN
              IF xyz.ok
              THEN [transmitters |-> Append(T, <<name, xyz.value>>), errors |-> E]
              ELSE [transmitters |-> T, errors |-> E]

\* validate_ap_coordinates, lines 44-57: the body of the loop for row n.
validate_row(row, n, T, E) ==
    IF Len(row) < 4
    THEN [transmitters |-> T, errors |-> Append(E, <<n, "Insufficient columns">>)]
    ELSE LET name == strip(row[1]) IN
         IF name = <<>>
         THEN [transmitters |-> T, errors |-> Append(E, <<n, "Empty AP name">>)]
         ELSE LET xyz == floats(row) IN
              IF xyz.ok
              THEN [transmitters |-> Append(T, <<name, xyz.value>>), errors |-> E]
              ELSE [transmitters |-> T,
                    errors |-> Append(E, <<n, "Invalid coordinates">>)]

\* Lines 59-60 with the summary diagnostic appended to every result.
validate_summary_always(T, E) == Append(E, <<0, "No valid AP coordinates found">>)

\* validate_ap_coordinates, lines 59-60: the summary diagnostic.
validate_summary(T, E) ==
    IF T = <<>> THEN Append(E, <<0, "No valid AP coordinates found">>) ELSE E

\* load_transmitters (simple_demo, demo_with_custom_aps): the body of the loop.
load_row(row, T) ==
    IF Len(row) >= 4
    THEN LET name == row[1]
             xyz  == floats(row)
         IN  IF xyz.ok THEN Append(T, <<name, xyz.value>>) ELSE T
    ELSE T

\* load_dummy_aps (sionna_1_1_0_*): the body of the loop over the lines; a
\* ValueError leaves the loop for the handler of the whole function.
dummy_line(raw, T) ==
    LET line == strip(raw) IN
    IF line # <<>> /\ Head(line) # "#"
    THEN LET parts == split(line, ",") IN
         IF Len(parts) >= 4
         THEN LET name == strip(parts[1])
                  xyz  == floats(parts)
              IN  IF xyz.ok
                  THEN [aps |-> Append(T, <<name, xyz.value>>), raised |-> FALSE]
                  ELSE [aps |-> T, raised |-> TRUE]
         ELSE [aps |-> T, raised |-> FALSE]
    ELSE [aps |-> T, raised |-> FALSE]

----------------------------------------------------------------------------
(* SpecMain: the scripts' entry points on the files tried *)

Pipeline   == "ap_to_sionna_pipeline"
SimpleDemo == "simple_demo"
CustomAps  == "demo_with_custom_aps"
Sionna110  == {"sionna_1_1_0_coverage", "sionna_1_1_0_fixed",
               "sionna_1_1_0_final_fixed"}
Scripts    == {Pipeline, SimpleDemo, CustomAps} \cup Sionna110

InitMain ==
    /\ prog \in Scripts
    /\ pc = IF prog \in Sionna110 THEN "import" ELSE "main"
    /\ mode \in (IF prog = Pipeline THEN {"validate", "simulate"} ELSE {""})
    \* --ap_file has a default in the sionna_1_1_0 scripts
    /\ ap_file_given \in (IF prog \in Sionna110 THEN {TRUE} ELSE BOOLEAN)
    /\ file_exists \in (IF ap_file_given THEN BOOLEAN ELSE {FALSE})
    /\ readable \in (IF file_exists THEN BOOLEAN ELSE {FALSE})
    /\ file \in (IF file_exists THEN Files ELSE {<<>>})
    /\ row_num = 0 /\ transmitters = <<>> /\ errors = <<>>
    /\ is_valid = FALSE /\ raised = FALSE /\ success = FALSE
    /\ exit_code = -1 /\ created = {}
    /\ PLIdle /\ CovIdle /\ PipeIdle /\ SceneIdle /\ FullIdle /\ XmlIdle
    /\ CustomIdle /\ ReportIdle /\ RoundIdle

Exit(code) == exit_code' = code /\ pc' = "exited"

\* ap_to_sionna_pipeline.main, lines 231-237 and 251-259: --ap_file is needed.
PipelineMain ==
    /\ prog = Pipeline /\ pc = "main"
    /\ IF ~ap_file_given
       THEN Exit(1)
       ELSE pc' = "validate_ap_coordinates" /\ UNCHANGED exit_code
    /\ UNCHANGED <<prog, plVars, covVars, mode, ap_file_given, file_exists,
                   readable, file, row_num, transmitters, errors, is_valid,
                   raised, success, created, pipeVars, sceneVars,
                   fullVars, xmlVars,
                   customVars, reportVars, roundVars>>

\* validate_ap_coordinates, lines 34-41 and 64-65: a missing file, a file that
\* cannot be read, or the start of the loop.
ValidateOpen ==
    /\ prog = Pipeline /\ pc = "validate_ap_coordinates"
    /\ IF ~file_exists
       THEN /\ errors' = << <<0, "File not found">> >>
            /\ pc' = "validated"
       ELSE IF ~readable
       THEN /\ errors' = << <<0, "Error reading file">> >>
            /\ pc' = "validated"
       ELSE /\ errors' = <<>>
            /\ pc' = "validate_rows"
    /\ transmitters' = <<>> /\ is_valid' = FALSE /\ row_num' = 0
    /\ UNCHANGED <<prog, plVars, covVars, mode, ap_file_given, file_exists,
                   readable, file, raised, success, exit_code, created,
                   pipeVars, sceneVars,
                   fullVars, xmlVars,
                   customVars, reportVars, roundVars>>

\* validate_ap_coordinates, lines 43-57: one row.
ValidateRow ==
    /\ prog = Pipeline /\ pc = "validate_rows"
    /\ row_num < Len(file)
    /\ LET r == validate_row(csv_row(file[row_num + 1]), row_num + 1,
                             transmitters, errors)
       IN  transmitters' = r.transmitters /\ errors' = r.errors
    /\ row_num' = row_num + 1
    /\ UNCHANGED <<prog, pc, plVars, covVars, mode, ap_file_given, file_exists,
                   readable, file, is_valid, raised, success, exit_code,
                   created, pipeVars, sceneVars,
                   fullVars, xmlVars,
                   customVars, reportVars, roundVars>>

\* validate_ap_coordinates, lines 59-62: the result.
ValidateReturn ==
    /\ prog = Pipeline /\ pc = "validate_rows"
    /\ row_num = Len(file)
    /\ errors' = validate_summary(transmitters, errors)
    /\ is_valid' = (Len(errors') = 0)
    /\ pc' = "validated"
    /\ UNCHANGED <<prog, plVars, covVars, mode, ap_file_given, file_exists,
                   readable, file, row_num, transmitters, raised, success,
                   exit_code, created, pipeVars, sceneVars,
                   fullVars, xmlVars,
                   customVars, reportVars, roundVars>>

\* main, lines 239-249 and 260-264: an invalid file ends the run with 1; the
\* validate mode then falls through to line 337.
PipelineValidated ==
    /\ prog = Pipeline /\ pc = "validated"
    /\ IF ~is_valid THEN Exit(1)
       ELSE IF mode = "validate" THEN Exit(0)
       ELSE pc' = "prepare_sionna_simulation" /\ UNCHANGED exit_code
    /\ UNCHANGED <<prog, plVars, covVars, mode, ap_file_given, file_exists,
                   readable, file, row_num, transmitters, errors, is_valid,
                   raised, success, created, pipeVars, sceneVars,
                   fullVars, xmlVars,
                   customVars, reportVars, roundVars>>

\* prepare_sionna_simulation, lines 85-91, and main, lines 267-292 and 335-337.
PrepareSionnaSimulation ==
    /\ prog = Pipeline /\ pc = "prepare_sionna_simulation"
    /\ created' = created \cup {"output_dir", "transmitters.csv"}
    /\ Exit(0)
    /\ UNCHANGED <<prog, plVars, covVars, mode, ap_file_given, file_exists,
                   readable, file, row_num, transmitters, errors, is_valid,
                   raised, success, pipeVars, sceneVars,
                   fullVars, xmlVars,
                   customVars, reportVars, roundVars>>

\* simple_demo.main, lines 216-229, and demo_with_custom_aps.main, lines
\* 238-243: the arguments and the file's existence.  argparse ends the run
\* with 2 when the required --ap_file is missing.
DemoMain ==
    /\ prog \in {SimpleDemo, CustomAps} /\ pc = "main"
    /\ IF ~ap_file_given THEN Exit(IF prog = SimpleDemo THEN 1 ELSE 2)
       ELSE IF ~file_exists THEN Exit(1)
       ELSE pc' = "load_transmitters" /\ UNCHANGED exit_code
    /\ UNCHANGED <<prog, plVars, covVars, mode, ap_file_given, file_exists,
                   readable, file, row_num, transmitters, errors, is_valid,
                   raised, success, created, pipeVars, sceneVars,
                   fullVars, xmlVars,
                   customVars, reportVars, roundVars>>

\* load_transmitters, lines 15-19: open() raises on a file that cannot be read.
LoadOpen ==
    /\ prog \in {SimpleDemo, CustomAps} /\ pc = "load_transmitters"
    /\ IF ~readable
       THEN raised' = TRUE /\ pc' = "loaded"
       ELSE raised' = FALSE /\ pc' = "load_rows"
    /\ transmitters' = <<>> /\ row_num' = 0
    /\ UNCHANGED <<prog, plVars, covVars, mode, ap_file_given, file_exists,
                   readable, file, errors, is_valid, success, exit_code,
                   created, pipeVars, sceneVars,
                   fullVars, xmlVars,
                   customVars, reportVars, roundVars>>

\* load_transmitters, lines 20-30: one row.
LoadRow ==
    /\ prog \in {SimpleDemo, CustomAps} /\ pc = "load_rows"
    /\ row_num < Len(file)
    /\ transmitters' = load_row(csv_row(file[row_num + 1]), transmitters)
    /\ row_num' = row_num + 1
    /\ UNCHANGED <<prog, pc, plVars, covVars, mode, ap_file_given, file_exists,
                   readable, file, errors, is_valid, raised, success, exit_code,
                   created, pipeVars, sceneVars,
                   fullVars, xmlVars,
                   customVars, reportVars, roundVars>>

\* load_transmitters, lines 32-33.
LoadReturn ==
    /\ prog \in {SimpleDemo, CustomAps} /\ pc = "load_rows"
    /\ row_num = Len(file)
    /\ pc' = "loaded"
    /\ UNCHANGED <<prog, plVars, covVars, mainVars, pipeVars, sceneVars,
                   fullVars, xmlVars,
                   customVars, reportVars, roundVars>>

\* The test of line 238 left out: an empty list goes on like any other.
no_transmitters_ignored(T) == FALSE

\* `if not transmitters` (simple_demo 238, demo_with_custom_aps 252).
no_transmitters(T) == T = <<>>

\* simple_demo.main, lines 236-243, and demo_with_custom_aps.main, 250-257.
DemoLoaded ==
    /\ prog \in {SimpleDemo, CustomAps} /\ pc = "loaded"
    /\ IF raised \/ no_transmitters(transmitters) THEN Exit(1)
       ELSE pc' = "outputs" /\ UNCHANGED exit_code
    /\ UNCHANGED <<prog, plVars, covVars, mode, ap_file_given, file_exists,
                   readable, file, row_num, transmitters, errors, is_valid,
                   raised, success, created, pipeVars, sceneVars,
                   fullVars, xmlVars,
                   customVars, reportVars, roundVars>>

\* simple_demo: create_summary_report (lines 35-211) and main, 246-262.
SimpleDemoOutputs ==
    /\ prog = SimpleDemo /\ pc = "outputs"
    /\ created' = created \cup {"output_dir", "ap_summary.txt"}
    /\ Exit(0)
    /\ UNCHANGED <<prog, plVars, covVars, mode, ap_file_given, file_exists,
                   readable, file, row_num, transmitters, errors, is_valid,
                   raised, success, pipeVars, sceneVars,
                   fullVars, xmlVars,
                   customVars, reportVars, roundVars>>

\* demo_with_custom_aps.main, lines 259-349: the directory, the two layout
\* plots, the summary and, with --run_simulation and a scene file found, the
\* simulation's own directory and transmitter file; the run ends with 0
\* whatever the simulation returned.
CustomApsOutputs ==
    /\ prog = CustomAps /\ pc = "outputs"
    /\ \E run_simulation \in BOOLEAN, simulated \in BOOLEAN :
          /\ created' = created
                \cup {"output_dir", "ap_layout_3d.png", "ap_layout_2d.png",
                      "ap_summary.txt"}
                \cup (IF run_simulation THEN {"sionna_results", "transmitters.csv"}
                                        ELSE {})
          /\ success' = (run_simulation /\ simulated)
    /\ Exit(0)
    /\ UNCHANGED <<prog, plVars, covVars, mode, ap_file_given, file_exists,
                   readable, file, row_num, transmitters, errors, is_valid,
                   raised, pipeVars, sceneVars,
                   fullVars, xmlVars,
                   customVars, reportVars, roundVars>>

\* sionna_1_1_0_*: the import of sionna at the top of the script; without it
\* the script ends with sys.exit(1).
SionnaImport ==
    /\ prog \in Sionna110 /\ pc = "import"
    /\ \E imported \in BOOLEAN :
          IF imported THEN pc' = "load_dummy_aps" /\ UNCHANGED exit_code
                      ELSE Exit(1)
    /\ UNCHANGED <<prog, plVars, covVars, mode, ap_file_given, file_exists,
                   readable, file, row_num, transmitters, errors, is_valid,
                   raised, success, created, pipeVars, sceneVars,
                   fullVars, xmlVars,
                   customVars, reportVars, roundVars>>

\* load_dummy_aps: open() and readlines(); any exception gives [].
DummyOpen ==
    /\ prog \in Sionna110 /\ pc = "load_dummy_aps"
    /\ IF ~file_exists \/ ~readable
       THEN raised' = TRUE /\ pc' = "loaded"
       ELSE raised' = FALSE /\ pc' = "dummy_lines"
    /\ transmitters' = <<>> /\ row_num' = 0
    /\ UNCHANGED <<prog, plVars, covVars, mode, ap_file_given, file_exists,
                   readable, file, errors, is_valid, success, exit_code,
                   created, pipeVars, sceneVars,
                   fullVars, xmlVars,
                   customVars, reportVars, roundVars>>

\* load_dummy_aps: one line; a ValueError ends the load with [].
DummyLine ==
    /\ prog \in Sionna110 /\ pc = "dummy_lines"
    /\ row_num < Len(file)
    /\ LET r == dummy_line(file[row_num + 1], transmitters)
       IN  IF r.raised
           THEN transmitters' = <<>> /\ raised' = TRUE /\ pc' = "loaded"
           ELSE transmitters' = r.aps /\ UNCHANGED <<raised, pc>>
    /\ row_num' = row_num + 1
    /\ UNCHANGED <<prog, plVars, covVars, mode, ap_file_given, file_exists,
                   readable, file, errors, is_valid, success, exit_code,
                   created, pipeVars, sceneVars,
                   fullVars, xmlVars,
                   customVars, reportVars, roundVars>>

\* load_dummy_aps: return aps.
DummyReturn ==
    /\ prog \in Sionna110 /\ pc = "dummy_lines"
    /\ row_num = Len(file)
    /\ pc' = "loaded"
    /\ UNCHANGED <<prog, plVars, covVars, mainVars, pipeVars, sceneVars,
                   fullVars, xmlVars,
                   customVars, reportVars, roundVars>>

\* sionna_1_1_0_*.main: `if not aps: return`.  main's value is dropped by the
\* bare main() call at the end of the script, so the process ends with 0.
SionnaLoaded ==
    /\ prog \in Sionna110 /\ pc = "loaded"
    /\ IF transmitters = <<>> THEN Exit(0)
       ELSE pc' = "simulate" /\ UNCHANGED exit_code
    /\ UNCHANGED <<prog, plVars, covVars, mode, ap_file_given, file_exists,
                   readable, file, row_num, transmitters, errors, is_valid,
                   raised, success, created, pipeVars, sceneVars,
                   fullVars, xmlVars,
                   customVars, reportVars, roundVars>>

\* The simulation: the output directory first, then the library's work, which
\* succeeds or not; main prints either way and the process ends with 0.
SionnaSimulate ==
    /\ prog \in Sionna110 /\ pc = "simulate"
    /\ \E ok \in BOOLEAN :
          /\ success' = ok
          /\ created' = created \cup {"output_dir"}
                           \cup (IF ok THEN {"results"} ELSE {})
    /\ Exit(0)
    /\ UNCHANGED <<prog, plVars, covVars, mode, ap_file_given, file_exists,
                   readable, file, row_num, transmitters, errors, is_valid,
                   raised, pipeVars, sceneVars,
                   fullVars, xmlVars,
                   customVars, reportVars, roundVars>>

NextMain ==
    \/ PipelineMain \/ ValidateOpen \/ ValidateRow \/ ValidateReturn
    \/ PipelineValidated \/ PrepareSionnaSimulation
    \/ DemoMain \/ LoadOpen \/ LoadRow \/ LoadReturn \/ DemoLoaded
    \/ SimpleDemoOutputs \/ CustomApsOutputs
    \/ SionnaImport \/ DummyOpen \/ DummyLine \/ DummyReturn
    \/ SionnaLoaded \/ SionnaSimulate

SpecMain == InitMain /\ [][NextMain]_vars

----------------------------------------------------------------------------
(* The claims about the loaders and the entry points *)

HasValidRow(f)     == \E k \in 1..Len(f) : f[k] \in ValidLines
HasMalformedRow(f) == \E k \in 1..Len(f) : f[k] \notin ValidLines
NoParseableRow(f)  == \A k \in 1..Len(f) : f[k] \notin ParseableLines

\* A loader's result with each name stripped of surrounding blanks.
Named(T) == [k \in 1..Len(T) |-> <<strip(T[k][1]), T[k][2]>>]

LoaderReturned ==
    \/ prog = Pipeline /\ pc = "validated"
    \/ prog \in {SimpleDemo, CustomAps} /\ pc = "loaded"

\* C4: for every readable input file, validate_ap_coordinates and
\* load_transmitters return exactly the rows with at least 4 fields, a
\* non-empty name and numeric x, y, z, each with its name and coordinates,
\* in input order.
C4_LoadersReturnTheValidRows ==
    (LoaderReturned /\ file_exists /\ readable)
        => Named(transmitters) = ExpectedTransmitters(file)

\* C5: in validate_ap_coordinates every malformed row leaves the transmitter
\* list as it is, appends exactly one diagnostic to the error list, and the
\* loop goes on with the next row.
C5_MalformedRowOneDiagnostic ==
    [][(/\ prog = Pipeline /\ pc = "validate_rows"
        /\ row_num < Len(file)
        /\ file[row_num + 1] \notin ValidLines)
          => /\ transmitters' = transmitters
             /\ Len(errors') = Len(errors) + 1
             /\ SubSeq(errors', 1, Len(errors)) = errors
             /\ errors'[Len(errors')][1] = row_num + 1
             /\ row_num' = row_num + 1
             /\ pc' = "validate_rows"]_vars

\* A malformed first row was reported and the valid second row was loaded
\* after it.
C5_Witness ==
    /\ prog = Pipeline /\ pc = "validate_rows" /\ row_num = 2
    /\ file[1] = LineBadCoord /\ file[2] = LineA
    /\ Len(errors) = 1 /\ Len(transmitters) = 1

ValidateReturned == prog = Pipeline /\ pc = "validated" /\ file_exists

\* C6 as stated: for every existing (and readable) file,
\* len(transmitters) + len(errors) is at most the number of rows of the file.
C6_CountsBoundedByRows ==
    (ValidateReturned /\ readable)
        => Len(transmitters) + Len(errors) <= Len(file)

\* C6 as amended: the sum is at most the number of rows plus one, and at most
\* the number of rows when at least one transmitter was parsed.
C6_CountsBoundedByRowsPlusSummary ==
    ValidateReturned =>
        /\ Len(transmitters) + Len(errors) <= Len(file) + 1
        /\ transmitters # <<>> => Len(transmitters) + Len(errors) <= Len(file)

\* A file of two malformed rows was validated: three diagnostics.
C6_Witness ==
    /\ ValidateReturned /\ readable
    /\ Len(file) = 2 /\ transmitters = <<>> /\ Len(errors) = 3

\* C7: in the validate and simulate modes a file with at least one valid row
\* ends the run with 0, malformed rows or not; only zero valid rows is fatal.
C7_MalformedRowsNotFatal ==
    (/\ prog = Pipeline /\ pc = "exited"
     /\ ap_file_given /\ file_exists /\ readable
     /\ HasValidRow(file) /\ HasMalformedRow(file))
        => exit_code = 0

C9_NoTransmittersExitsOne ==
    (/\ prog \in Sionna110 /\ pc = "exited"
     /\ (transmitters = <<>> \/ ~success))
        => exit_code = 1

----------------------------------------------------------------------------
(* calculate_path_loss: order in the distance *)

\* C11: calculate_path_loss is non-decreasing in the distance: for a fixed
\* frequency and obstacle count and all distances 0 <= d1 <= d2, d1 = 0
\* included, the loss at d1 is at most the loss at d2.
C11_MonotoneInDistance ==
    (prog = "calculate_path_loss" /\ pc = "done" /\ distance >= 0)
        => \A d1 \in 0..distance :
               calculate_path_loss(d1, frequency, obstacles) <= total_loss

----------------------------------------------------------------------------
(* simulate_coverage_grid: ties, order, frame and grid *)

\* The APs (numbered from 1) whose estimate at cell c is the maximal one.
Maximal(c) ==
    {k \in 1..Len(aps) :
        received_power(aps[k], x_grid[c[1]], y_grid[c[2]]) = MaxOf(Estimates(c))}

MinOf(S) == CHOOSE m \in S : \A v \in S : m <= v

\* C12: where two or more APs yield the same maximal estimate at a cell,
\* best_ap there is the index of the first of them in input order.
C12_TieGoesToFirst ==
    CovDone =>
        \A c \in Cells :
            Cardinality(Maximal(c)) >= 2 => best_ap[c] = MinOf(Maximal(c)) - 1

----------------------------------------------------------------------------
(* SpecAgain: simulate_coverage_grid called twice, for comparison *)

\* The AP positions tried, in half metres: at receiver height at the origin,
\* 1.5 m above it, and 10 m along x.
Sites == {<<0, 0, 3>>, <<0, 0, 6>>, <<20, 0, 6>>}

SiteAPs == {LoadedAP("AP", p[1], p[2], p[3]) : p \in Sites}

\* The permutations of an AP list.
Reorderings(s) ==
    {[k \in 1..Len(s) |-> s[p[k]]] :
        p \in {q \in [1..Len(s) -> 1..Len(s)] :
                  \A a, b \in 1..Len(s) : q[a] = q[b] => a = b}}

\* The AP lists that differ from s in the position of one AP only.
Moved(s) == {[s EXCEPT ![k].position = p] : k \in 1..Len(s), p \in Sites}

InitAgain ==
    /\ prog = "simulate_coverage_grid" /\ pc = "start"
    /\ aps \in UNION {[1..n -> SiteAPs] : n \in 0..MaxAPs}
    /\ grid_resolution \in Resolutions
    /\ x_grid = <<>> /\ y_grid = <<>>
    /\ signal_strength = <<>> /\ best_ap = <<>> /\ i = 0 /\ previous = <<>>
    /\ PLIdle /\ MainIdle /\ PipeIdle /\ SceneIdle /\ FullIdle /\ XmlIdle
    /\ CustomIdle /\ ReportIdle /\ RoundIdle

\* A second call of simulate_coverage_grid, on the same APs in another order
\* or with one AP moved; what the first call returned is kept for comparison.
CallAgain ==
    /\ prog = "simulate_coverage_grid" /\ pc = "done"
    /\ previous = <<>>
    /\ previous' = [aps |-> aps, x_grid |-> x_grid, y_grid |-> y_grid,
                    signal_strength |-> signal_strength, best_ap |-> best_ap]
    /\ aps' \in (Reorderings(aps) \cup Moved(aps)) \ {aps}
    /\ pc' = "start"
    /\ x_grid' = <<>> /\ y_grid' = <<>>
    /\ signal_strength' = <<>> /\ best_ap' = <<>> /\ i' = 0
    /\ UNCHANGED <<prog, grid_resolution, plVars, mainVars, pipeVars,
                   sceneVars,
                   fullVars, xmlVars,
                   customVars, reportVars, roundVars>>

NextAgain == SetupGrid \/ ProcessAP \/ ReturnCoverage \/ CallAgain

SpecAgain == InitAgain /\ [][NextAgain]_vars

\* Both calls have returned.
BothDone == CovDone /\ previous # <<>>

\* The second list is a permutation of the first.
Reordered == aps \in Reorderings(previous.aps)

\* C13: the signal values do not depend on the order of the APs: for every
\* AP list and every permutation of it the returned grid and the
\* signal_strength of every cell are the same.
C13_SignalOrderIndependent ==
    (BothDone /\ Reordered)
        => /\ x_grid = previous.x_grid /\ y_grid = previous.y_grid
           /\ signal_strength = previous.signal_strength

\* Two different APs were given in both orders, and a cell has a positive
\* signal.
C13_Witness ==
    /\ BothDone /\ Reordered /\ aps # previous.aps
    /\ \E c \in Cells : signal_strength[c] > 0

\* The second list differs from the first in the position of AP k (numbered
\* from 1) and in nothing else.
OnlyMoved(k) ==
    /\ Len(aps) = Len(previous.aps)
    /\ k \in 1..Len(aps)
    /\ aps[k].position # previous.aps[k].position
    /\ aps = [previous.aps EXCEPT ![k].position = aps[k].position]

\* The cell of the first call at the location of cell c of the second call.
SameLocation(c) ==
    {p \in DOMAIN previous.signal_strength :
        /\ previous.x_grid[p[1]] = x_grid[c[1]]
        /\ previous.y_grid[p[2]] = y_grid[c[2]]}

\* C14 as stated: at a fixed cell location, moving a transmitter that is
\* not the winner of that cell leaves the cell's signal_strength unchanged.
C14_MovingNonWinnerKeepsSignal ==
    BothDone =>
        \A k \in 1..Len(aps) : OnlyMoved(k) =>
            \A c \in Cells : \A p \in SameLocation(c) :
                previous.best_ap[p] # k - 1
                    => signal_strength[c] = previous.signal_strength[p]

\* C14, amended: the same, for a transmitter that is the winner of the cell
\* neither before nor after the move.
C14_MovingLoserKeepsSignal ==
    BothDone =>
        \A k \in 1..Len(aps) : OnlyMoved(k) =>
            \A c \in Cells : \A p \in SameLocation(c) :
                (previous.best_ap[p] # k - 1 /\ best_ap[c] # k - 1)
                    => signal_strength[c] = previous.signal_strength[p]

\* A cell won by one AP, before and after another AP was moved.
C14_Witness ==
    /\ BothDone
    /\ \E k \in 1..Len(aps) :
           /\ OnlyMoved(k)
           /\ \E c \in Cells : \E p \in SameLocation(c) :
                  /\ previous.best_ap[p] \notin {-1, k - 1}
                  /\ best_ap[c] \notin {-1, k - 1}

----------------------------------------------------------------------------
(* Loaders: names *)

\* C15: every transmitter sequence a load (validate_ap_coordinates,
\* load_transmitters) returns holds only non-empty names, and no name twice.
C15_NamesNonEmptyAndUnique ==
    LoaderReturned =>
        /\ \A k \in 1..Len(transmitters) : transmitters[k][1] # <<>>
        /\ \A j, k \in 1..Len(transmitters) :
               transmitters[j][1] = transmitters[k][1] => j = k

----------------------------------------------------------------------------
(* SpecLoadAP: load_ap_coordinates (real_building_coverage, demo_lightweight) *)

RealBuilding == "real_building_coverage"
Lightweight  == "demo_lightweight"

\* The body of the loop over csv.reader's rows: float() is not guarded, so a
\* ValueError leaves the function.
ap_row(row, T) ==
    IF Len(row) >= 4
    THEN LET name == row[1]
             xyz  == floats(row)
         IN  IF xyz.ok
             THEN [aps |-> Append(T, <<name, xyz.value>>), raised |-> FALSE]
             ELSE [aps |-> T, raised |-> TRUE]
    ELSE [aps |-> T, raised |-> FALSE]

InitLoadAP ==
    /\ prog \in {RealBuilding, Lightweight}
    /\ pc = "load_ap_coordinates"
    /\ mode = "" /\ ap_file_given = TRUE /\ file_exists = TRUE
    /\ readable \in BOOLEAN
    /\ file \in Files
    /\ row_num = 0 /\ transmitters = <<>> /\ errors = <<>>
    /\ is_valid = FALSE /\ raised = FALSE /\ success = FALSE
    /\ exit_code = -1 /\ created = {}
    /\ PLIdle /\ CovIdle /\ PipeIdle /\ SceneIdle /\ FullIdle /\ XmlIdle
    /\ CustomIdle /\ ReportIdle /\ RoundIdle

\* aps = [] and open(): a file that cannot be read raises.
ApOpen ==
    /\ prog \in {RealBuilding, Lightweight} /\ pc = "load_ap_coordinates"
    /\ IF ~readable
       THEN raised' = TRUE /\ pc' = "raised"
       ELSE raised' = FALSE /\ pc' = "rows"
    /\ transmitters' = <<>> /\ row_num' = 0
    /\ UNCHANGED <<prog, plVars, covVars, mode, ap_file_given, file_exists,
                   readable, file, errors, is_valid, success, exit_code,
                   created, pipeVars, sceneVars,
                   fullVars, xmlVars,
                   customVars, reportVars, roundVars>>

\* One row of the file.
ApRow ==
    /\ prog \in {RealBuilding, Lightweight} /\ pc = "rows"
    /\ row_num < Len(file)
    /\ LET r == ap_row(csv_row(file[row_num + 1]), transmitters)
       IN  /\ transmitters' = r.aps
           /\ raised' = r.raised
           /\ pc' = IF r.raised THEN "raised" ELSE "rows"
    /\ row_num' = row_num + 1
    /\ UNCHANGED <<prog, plVars, covVars, mode, ap_file_given, file_exists,
                   readable, file, errors, is_valid, success, exit_code,
                   created, pipeVars, sceneVars,
                   fullVars, xmlVars,
                   customVars, reportVars, roundVars>>

\* `return aps`.
ApReturn ==
    /\ prog \in {RealBuilding, Lightweight} /\ pc = "rows"
    /\ row_num = Len(file)
    /\ pc' = "returned"
    /\ UNCHANGED <<prog, plVars, covVars, mainVars, pipeVars, sceneVars,
                   fullVars, xmlVars,
                   customVars, reportVars, roundVars>>

NextLoadAP == ApOpen \/ ApRow \/ ApReturn

SpecLoadAP == InitLoadAP /\ [][NextLoadAP]_vars

\* The file mixes valid rows with one row of 4 fields and a non-numeric
\* coordinate.
OneBadCoordAmongValid(f) ==
    /\ HasValidRow(f)
    /\ Cardinality({k \in 1..Len(f) : f[k] = LineBadCoord}) = 1
    /\ \A k \in 1..Len(f) : f[k] \in ValidLines \cup {LineBadCoord}

\* C16: on a readable file that mixes valid rows with one row of at least 4
\* fields and a non-numeric coordinate, load_ap_coordinates returns normally
\* with all the valid rows, and the bad row is dropped with one recorded
\* diagnostic.
C16_BadRowDroppedWithDiagnostic ==
    (prog \in {RealBuilding, Lightweight} /\ pc \in {"returned", "raised"}
       /\ readable /\ OneBadCoordAmongValid(file))
        => /\ pc = "returned" /\ ~raised
           /\ Named(transmitters) = ExpectedTransmitters(file)
           /\ Len(errors) = 1

----------------------------------------------------------------------------
(* load_dummy_aps: a malformed row among valid ones *)

\* load_dummy_aps skips comment lines, so a valid row there is a valid line
\* that does not start with #.
DummyValidLines == ValidLines \ {LineComment}

IsDummyValid(line) == line \in DummyValidLines

ExpectedDummyAps(f) == ExpectedTransmitters(SelectSeq(f, IsDummyValid))

HasName(t) == t[1] # <<>>

DummyReturned == prog \in Sionna110 /\ pc = "loaded" /\ file_exists /\ readable

\* C17: for every file, the list load_dummy_aps returns contains every valid
\* row of the file in input order, wherever a row with a non-numeric
\* coordinate stands among them.
C17_DummyLoaderKeepsValidRows ==
    DummyReturned
        => SelectSeq(Named(transmitters), HasName) = ExpectedDummyAps(file)

----------------------------------------------------------------------------
(* SpecPipeline: ap_to_sionna_pipeline.main in pipeline mode *)

\* What the external prediction pipeline does: the script is missing, it
\* exits 0, it exits non-zero, or subprocess.run raises.
PipelineOutcomes == {"missing", "exit0", "failed", "error"}

\* file_exists: the data directory holds a processed .csv after the run;
\* file is the most recent one.
InitPipeline ==
    /\ prog = Pipeline /\ pc = "main" /\ mode = "pipeline"
    /\ building_and_date \in BOOLEAN
    /\ pipeline_script \in PipelineOutcomes
    /\ ap_file_given = FALSE
    /\ file_exists \in (IF pipeline_script = "exit0" THEN BOOLEAN ELSE {FALSE})
    /\ readable \in (IF file_exists THEN BOOLEAN ELSE {FALSE})
    /\ file \in (IF file_exists THEN Files ELSE {<<>>})
    /\ row_num = 0 /\ transmitters = <<>> /\ errors = <<>>
    /\ is_valid = FALSE /\ raised = FALSE /\ success = FALSE
    /\ exit_code = -1 /\ created = {}
    /\ caller = "" /\ results = <<>>
    /\ PLIdle /\ CovIdle /\ SceneIdle /\ FullIdle /\ XmlIdle
    /\ CustomIdle /\ ReportIdle /\ RoundIdle

\* main, lines 294-302: --building and --date are needed.
PipelineModeMain ==
    /\ prog = Pipeline /\ pc = "main" /\ mode = "pipeline"
    /\ IF ~building_and_date
       THEN Exit(1)
       ELSE pc' = "run_pipeline_integration" /\ UNCHANGED exit_code
    /\ UNCHANGED <<prog, plVars, covVars, mode, ap_file_given, file_exists,
                   readable, file, row_num, transmitters, errors, is_valid,
                   raised, success, created, pipeVars, sceneVars,
                   fullVars, xmlVars,
                   customVars, reportVars, roundVars>>

\* run_pipeline_integration, lines 140-182 and 197-204: the external run and
\* the search for a coordinate file.
RunPipelineIntegration ==
    /\ prog = Pipeline /\ pc = "run_pipeline_integration"
    /\ LET fresh == [pipeline_run |-> FALSE, sionna_ready |-> FALSE,
                     errors |-> <<>>]
       IN  CASE pipeline_script = "missing" ->
                  /\ results' = [fresh EXCEPT
                                   !.errors = << <<0, "Pipeline script not found">> >>]
                  /\ pc' = "integrated" /\ UNCHANGED caller
             [] pipeline_script = "failed" ->
                  /\ results' = [fresh EXCEPT
                                   !.errors = << <<0, "Pipeline failed">> >>]
                  /\ pc' = "integrated" /\ UNCHANGED caller
             [] pipeline_script = "error" ->
                  /\ results' = [fresh EXCEPT
                                   !.errors = << <<0, "Pipeline execution error">> >>]
                  /\ pc' = "integrated" /\ UNCHANGED caller
             [] pipeline_script = "exit0" /\ ~file_exists ->
                  /\ results' = [fresh EXCEPT
                                   !.pipeline_run = TRUE,
                                   !.errors = << <<0, "No coordinate files generated by pipeline">> >>]
                  /\ pc' = "integrated" /\ UNCHANGED caller
             [] pipeline_script = "exit0" /\ file_exists ->
                  /\ results' = [fresh EXCEPT !.pipeline_run = TRUE]
                  /\ caller' = "run_pipeline_integration"
                  /\ pc' = "validate_ap_coordinates"
    /\ UNCHANGED <<prog, plVars, covVars, mainVars, building_and_date,
                   pipeline_script, sceneVars,
                   fullVars, xmlVars,
                   customVars, reportVars, roundVars>>

\* run_pipeline_integration, lines 190-195: the verdict on the coordinate file.
IntegrationValidated ==
    /\ prog = Pipeline /\ pc = "validated"
    /\ caller = "run_pipeline_integration"
    /\ results' = IF is_valid
                  THEN [results EXCEPT !.sionna_ready = TRUE]
                  ELSE [results EXCEPT !.errors = results.errors \o errors]
    /\ pc' = "integrated"
    /\ UNCHANGED <<prog, plVars, covVars, mainVars, building_and_date,
                   pipeline_script, caller, sceneVars,
                   fullVars, xmlVars,
                   customVars, reportVars, roundVars>>

\* main, lines 303-313 and 325-337: a run that did not happen ends with 1; a
\* run without usable coordinates prints the errors and goes on to line 335.
PipelineIntegrated ==
    /\ prog = Pipeline /\ pc = "integrated"
    /\ IF ~results.pipeline_run
       THEN Exit(1) /\ UNCHANGED caller
       ELSE IF results.sionna_ready
       THEN pc' = "validate_ap_coordinates" /\ caller' = "main"
            /\ UNCHANGED exit_code
       ELSE Exit(0) /\ UNCHANGED caller
    /\ UNCHANGED <<prog, plVars, covVars, mode, ap_file_given, file_exists,
                   readable, file, row_num, transmitters, errors, is_valid,
                   raised, success, created, building_and_date,
                   pipeline_script, results, sceneVars,
                   fullVars, xmlVars,
                   customVars, reportVars, roundVars>>

\* main, lines 313-316 and 335-337: the second validation of the same file.
MainRevalidated ==
    /\ prog = Pipeline /\ pc = "validated" /\ caller = "main"
    /\ IF is_valid
       THEN pc' = "prepare_sionna_simulation" /\ UNCHANGED exit_code
       ELSE Exit(0)
    /\ UNCHANGED <<prog, plVars, covVars, mode, ap_file_given, file_exists,
                   readable, file, row_num, transmitters, errors, is_valid,
                   raised, success, created, pipeVars, sceneVars,
                   fullVars, xmlVars,
                   customVars, reportVars, roundVars>>

NextPipeline ==
    \/ PipelineModeMain \/ RunPipelineIntegration
    \/ ValidateOpen \/ ValidateRow \/ ValidateReturn
    \/ IntegrationValidated \/ PipelineIntegrated \/ MainRevalidated
    \/ PrepareSionnaSimulation

SpecPipeline == InitPipeline /\ [][NextPipeline]_vars

\* C18: in pipeline mode main returns 1 on every validation or I/O failure;
\* in particular, when the external pipeline exits 0 but leaves no coordinate
\* file, or one that validate_ap_coordinates rejects (sionna_ready stays
\* false), main returns 1 and not 0.
C18_PipelineFailureExitsOne ==
    (prog = Pipeline /\ mode = "pipeline" /\ pc = "exited"
       /\ (results = <<>> \/ ~results.sionna_ready))
        => exit_code = 1

----------------------------------------------------------------------------
(* simulate_coverage_grid: the grid *)

\* The bounding box of an AP list: <<min_x, max_x, min_y, max_y>>.
BoundingBox(s) ==
    LET xs == [k \in 1..Len(s) |-> s[k].position[1]]
        ys == [k \in 1..Len(s) |-> s[k].position[2]]
    IN  <<SeqMin(xs, Len(xs)), SeqMax(xs, Len(xs)),
          SeqMin(ys, Len(ys)), SeqMax(ys, Len(ys))>>

\* The samples of one axis are lo - 20 m + k * resolution for exactly the
\* k >= 0 that keep the value below hi + 20 m.
SamplesOf(grid, lo, hi) ==
    /\ \A k \in 1..Len(grid) :
           /\ grid[k] = lo - GridMargin + (k - 1) * grid_resolution
           /\ grid[k] >= lo - GridMargin /\ grid[k] < hi + GridMargin
    /\ lo - GridMargin + Len(grid) * grid_resolution >= hi + GridMargin

\* Every AP lies between the first and the last sample of both axes.
APsInsideExtent ==
    \A k \in 1..Len(aps) :
        /\ x_grid # <<>> /\ y_grid # <<>>
        /\ x_grid[1] <= aps[k].position[1]
        /\ aps[k].position[1] <= x_grid[Len(x_grid)]
        /\ y_grid[1] <= aps[k].position[2]
        /\ aps[k].position[2] <= y_grid[Len(y_grid)]

\* C19: the grid is a function of the APs' bounding box and the resolution
\* only: the x samples are exactly min_x - 20 + k * resolution while below
\* max_x + 20 (likewise y), so every sample lies in [min - 20, max + 20),
\* every AP's (x, y) lies inside the sampled extent, and two AP lists with
\* the same bounding box and resolution give the same grid.
C19_GridFromBoundingBox ==
    CovDone =>
        /\ SamplesOf(x_grid, BoundingBox(aps)[1], BoundingBox(aps)[2])
        /\ SamplesOf(y_grid, BoundingBox(aps)[3], BoundingBox(aps)[4])
        /\ APsInsideExtent
        /\ (previous # <<>> /\ BoundingBox(previous.aps) = BoundingBox(aps))
               => (x_grid = previous.x_grid /\ y_grid = previous.y_grid)

----------------------------------------------------------------------------
(* SpecScene: demo_lightweight.analyze_building_scene *)

\* The lines a scene file is made of, each a sequence of characters.
\* <?xml version="1.0"?>  (the XML declaration)
XmlDeclaration ==
    <<"<", "?", "x", "m", "l", " ", "v", "e", "r", "s", "i", "o", "n", "=",
      "\"", "1", ".", "0", "\"", "?", ">">>

\* <scene version="2.1">  (the root Mitsuba expects)
SceneVersioned ==
    <<"<", "s", "c", "e", "n", "e", " ", "v", "e", "r", "s", "i", "o", "n",
      "=", "\"", "2", ".", "1", "\"", ">">>

\* <scene>  (a scene tag without attributes)
ScenePlain ==
    <<"<", "s", "c", "e", "n", "e", ">">>

\* </scene>  (the end tag)
SceneClose ==
    <<"<", "/", "s", "c", "e", "n", "e", ">">>

\* <shape id="Concrete"/>  (a building element)
ShapeConcrete ==
    <<"<", "s", "h", "a", "p", "e", " ", "i", "d", "=", "\"", "C", "o", "n",
      "c", "r", "e", "t", "e", "\"", "/", ">">>

\* <!-- <scene version="2"> -->  (a scene tag inside a comment)
CommentedScene ==
    <<"<", "!", "-", "-", " ", "<", "s", "c", "e", "n", "e", " ", "v", "e",
      "r", "s", "i", "o", "n", "=", "\"", "2", "\"", ">", " ", "-", "-", ">">>

\* <root>  (another root element)
OtherRoot ==
    <<"<", "r", "o", "o", "t", ">">>

SceneLines ==
    {XmlDeclaration, SceneVersioned, ScenePlain, SceneClose, ShapeConcrete,
     CommentedScene, OtherRoot}

SceneFiles == UNION {[1..n -> SceneLines] : n \in 0..MaxSceneLines}

\* The needles of lines 52, 57 and 62-69.
SceneTag     == <<"<", "s", "c", "e", "n", "e">>
VersionEq    == <<"v", "e", "r", "s", "i", "o", "n", "=">>
ShapeTag     == <<"<", "s", "h", "a", "p", "e">>
MaterialWords ==
    << <<"c", "o", "n", "c", "r", "e", "t", "e">>, <<"m", "e", "t", "a", "l">>,
       <<"m", "a", "r", "b", "l", "e">>, <<"d", "i", "f", "f", "u", "s", "e">> >>

\* f.read(): the lines, each ended by a newline.
RECURSIVE read(_)
read(f) == IF f = <<>> THEN <<>> ELSE Head(f) \o <<"\n">> \o read(Tail(f))

\* The places where sub occurs in s.
occurrences(s, sub) ==
    {k \in 1..(Len(s) - Len(sub) + 1) : SubSeq(s, k, k + Len(sub) - 1) = sub}

\* `sub in s`
contains(s, sub) == occurrences(s, sub) # {}

\* str.count(sub), for a sub that cannot overlap itself.
count(s, sub) == Cardinality(occurrences(s, sub))

\* str.lower() on the letters the scene lines hold.
lower(s) == [k \in 1..Len(s) |-> IF s[k] = "C" THEN "c" ELSE s[k]]

\* Line 52: '<scene' in content and 'version=' in content.
valid_mitsuba(content) ==
    contains(content, SceneTag) /\ contains(content, VersionEq)

InitScene ==
    /\ prog = Lightweight /\ pc = "analyze_building_scene"
    /\ mode = "" /\ ap_file_given = FALSE /\ file_exists = TRUE
    /\ readable \in BOOLEAN
    /\ file \in SceneFiles
    /\ row_num = 0 /\ transmitters = <<>> /\ errors = <<>>
    /\ is_valid = FALSE /\ raised = FALSE /\ success = FALSE
    /\ exit_code = -1 /\ created = {}
    /\ info = <<>>
    /\ PLIdle /\ CovIdle /\ PipeIdle /\ FullIdle /\ XmlIdle
    /\ CustomIdle /\ ReportIdle /\ RoundIdle

\* analyze_building_scene, lines 35-72: open() raises on a file that cannot
\* be read; otherwise the whole text is searched.
AnalyzeBuildingScene ==
    /\ prog = Lightweight /\ pc = "analyze_building_scene"
    /\ IF ~readable
       THEN /\ raised' = TRUE /\ pc' = "raised"
            /\ UNCHANGED info
       ELSE LET content == read(file)
                found == {k \in 1..Len(MaterialWords) :
                            contains(lower(content), MaterialWords[k])}
            IN  /\ info' = [valid_mitsuba |-> valid_mitsuba(content),
                            shape_count |-> count(content, ShapeTag),
                            materials |-> found]
                /\ pc' = "returned"
                /\ UNCHANGED raised
    /\ UNCHANGED <<prog, plVars, covVars, mode, ap_file_given, file_exists,
                   readable, file, row_num, transmitters, errors, is_valid,
                   success, exit_code, created, pipeVars,
                   fullVars, xmlVars,
                   customVars, reportVars, roundVars>>

NextScene == AnalyzeBuildingScene

SpecScene == InitScene /\ [][NextScene]_vars

\* The root element of a document: its first line that is neither the XML
\* declaration nor a comment.
IsMarkup(line) == line \notin {XmlDeclaration, CommentedScene}

RootIsVersionedScene(f) ==
    LET elements == SelectSeq(f, IsMarkup)
    IN  elements # <<>> /\ Head(elements) = SceneVersioned

\* C20: analyze_building_scene sets valid_mitsuba to true if and only if the
\* document's root element is <scene> and carries a version attribute; the
\* XML declaration's version= or a nested or commented-out <scene does not
\* make a file valid.
C20_ValidIffVersionedSceneRoot ==
    (prog = Lightweight /\ pc = "returned" /\ info # <<>>)
        => (info.valid_mitsuba <=> RootIsVersionedScene(file))

----------------------------------------------------------------------------
(* SpecFull: sionna_full_simulation.main *)

FullSimulation == "sionna_full_simulation"

\* The paths the script names.
Blender              == "blender"
BLEND_FILE_PATH      == "2F_no_solid.blend"
TRANSMITTER_FILE     == "../data/2f.csv"
OtherTransmitterFile == "other.csv"
OUTPUT_MITSUBA_PATH  == "output_scene.xml"

\* check_dependencies, lines 86-92.
required_scripts ==
    {"blender_add_cubes.py", "save_to_mitsuba.py", "sionna_coverage_map.py",
     "blender_add_single_coverage_map.py", "blender_add_3d_heatmap.py"}

\* The scripts main() hands to blender or python: lines 212, 235, 256, 273,
\* 283 and 299.
invoked_scripts ==
    {"blender_add_cubes.py", "save_to_mitsuba.py", "sionna_coverage_map.py",
     "blender_add_heatmaps.py", "blender_add_single_coverage_map.py",
     "blender_add_3d_heatmap.py"}

\* What has to be there for a run: everything but an output of an earlier run.
Inputs ==
    {Blender, BLEND_FILE_PATH, TRANSMITTER_FILE, OtherTransmitterFile}
        \cup invoked_scripts

\* The external steps, by the script each one runs.
Steps ==
    {"blender_add_cubes.py", "save_to_mitsuba.py", "sionna_coverage_map.py",
     "coverage_maps", "blender_add_3d_heatmap.py"}

\* The transmitter files tried: header-less name,x,y,z records.
TransmitterFiles == UNION {[1..n -> {LineA, LineB}] : n \in 0..MaxRows}

\* check_dependencies, lines 56-101.
check_dependencies ==
    /\ Blender \in exists
    /\ BLEND_FILE_PATH \in exists
    /\ TRANSMITTER_FILE \in exists
    /\ required_scripts \subseteq exists

\* count_transmitters, lines 177-186: the first row is skipped, the others
\* are counted; an error while reading gives 0.
count_transmitters(there, f) ==
    IF ~there THEN 0
    ELSE LET rows == [k \in 1..Len(f) |-> csv_row(f[k])]
         IN  IF rows = <<>> THEN 0 ELSE Len(Tail(rows))

\* subprocess.run(..., check=True): a non-zero exit raises CalledProcessError.
CalledProcessError(step) == failing = step

\* At most one input is missing, at most one tool fails, and an
\* output_scene.xml of an earlier run may lie around.
InitFull ==
    /\ prog = FullSimulation /\ pc = "main"
    /\ args \in [coverage_type : {"individual", "combined"},
                 skip_cubes : BOOLEAN,
                 transmitter_file : {TRANSMITTER_FILE, OtherTransmitterFile}]
    /\ \E missing \in {{}} \cup {{p} : p \in Inputs}, stale \in BOOLEAN :
           exists = (Inputs \ missing)
                        \cup (IF stale THEN {OUTPUT_MITSUBA_PATH} ELSE {})
    /\ failing \in {""} \cup Steps
    /\ file_exists = (args.transmitter_file \in exists)
    /\ readable = file_exists
    /\ file \in (IF file_exists THEN TransmitterFiles ELSE {<<>>})
    /\ log = <<>> /\ num_transmitters = 0
    /\ mode = "" /\ ap_file_given = TRUE
    /\ row_num = 0 /\ transmitters = <<>> /\ errors = <<>>
    /\ is_valid = FALSE /\ raised = FALSE /\ success = FALSE
    /\ exit_code = -1 /\ created = {}
    /\ PLIdle /\ CovIdle /\ PipeIdle /\ SceneIdle /\ XmlIdle
    /\ CustomIdle /\ ReportIdle /\ RoundIdle

\* Lines 329-334: the handler of CalledProcessError prints the error and the
\* captured stderr and exits with 1.
HandleCalledProcessError(step) ==
    /\ log' = log \o <<step, "Simulation failed with error", "stderr">>
    /\ Exit(1)

\* main, lines 200-205.
CheckDependencies ==
    /\ prog = FullSimulation /\ pc = "main"
    /\ IF check_dependencies
       THEN pc' = "step1" /\ UNCHANGED <<exit_code, log>>
       ELSE log' = Append(log, "Dependency check failed") /\ Exit(1)
    /\ UNCHANGED <<plVars, covVars, mainCommon, pipeVars, sceneVars, prog,
                   args, exists, failing, num_transmitters, xmlVars,
                   customVars, reportVars, roundVars>>

\* Lines 208-227: the obstacles, or a copy of the clean scene.
Step1 ==
    /\ prog = FullSimulation /\ pc = "step1"
    /\ IF args.skip_cubes
       THEN pc' = "step2" /\ UNCHANGED <<exit_code, log>>
       ELSE IF CalledProcessError("blender_add_cubes.py")
       THEN HandleCalledProcessError("blender_add_cubes.py")
       ELSE /\ log' = Append(log, "blender_add_cubes.py")
            /\ pc' = "step2" /\ UNCHANGED exit_code
    /\ UNCHANGED <<plVars, covVars, mainCommon, pipeVars, sceneVars, prog,
                   args, exists, failing, num_transmitters, xmlVars,
                   customVars, reportVars, roundVars>>

\* Lines 229-249: the conversion runs with check=False; only the absence of
\* output_scene.xml afterwards counts as a failure.
Step2 ==
    /\ prog = FullSimulation /\ pc = "step2"
    /\ exists' = IF failing = "save_to_mitsuba.py" THEN exists
                 ELSE exists \cup {OUTPUT_MITSUBA_PATH}
    /\ IF OUTPUT_MITSUBA_PATH \notin exists'
       THEN /\ log' = log \o <<"save_to_mitsuba.py",
                                "Failed to generate Mitsuba file", "stderr">>
            /\ Exit(1)
       ELSE /\ log' = log \o <<"save_to_mitsuba.py", "correct_orientation">>
            /\ pc' = "step3" /\ UNCHANGED exit_code
    /\ UNCHANGED <<plVars, covVars, mainCommon, pipeVars, sceneVars, prog,
                   args, failing, num_transmitters, xmlVars,
                   customVars, reportVars, roundVars>>

\* Lines 251-266: the ray tracing, then the count of the transmitters.
Step3 ==
    /\ prog = FullSimulation /\ pc = "step3"
    /\ IF CalledProcessError("sionna_coverage_map.py")
       THEN /\ HandleCalledProcessError("sionna_coverage_map.py")
            /\ UNCHANGED num_transmitters
       ELSE /\ log' = Append(log, "sionna_coverage_map.py")
            /\ num_transmitters' = count_transmitters(file_exists, file)
            /\ pc' = "step4" /\ UNCHANGED exit_code
    /\ UNCHANGED <<plVars, covVars, mainCommon, pipeVars, sceneVars, prog,
                   args, exists, failing, xmlVars,
                   customVars, reportVars, roundVars>>

\* Line 271: the branch of Step 4.
individual_heatmaps ==
    args.coverage_type = "individual" /\ num_transmitters > 1

\* Lines 268-294: one map per transmitter, or the combined map.
Step4 ==
    /\ prog = FullSimulation /\ pc = "step4"
    /\ IF CalledProcessError("coverage_maps")
       THEN HandleCalledProcessError("coverage_maps")
       ELSE /\ log' = Append(log, IF individual_heatmaps
                                  THEN "blender_add_heatmaps.py"
                                  ELSE "blender_add_single_coverage_map.py")
            /\ pc' = "step5" /\ UNCHANGED exit_code
    /\ UNCHANGED <<plVars, covVars, mainCommon, pipeVars, sceneVars, prog,
                   args, exists, failing, num_transmitters, xmlVars,
                   customVars, reportVars, roundVars>>

\* Lines 296-327 and 343: the 3D mesh and the summary; main() returns and the
\* script ends with 0.  run_blender_script runs with check=True, so it raises
\* on a non-zero exit and never returns False.
Step5 ==
    /\ prog = FullSimulation /\ pc = "step5"
    /\ IF CalledProcessError("blender_add_3d_heatmap.py")
       THEN HandleCalledProcessError("blender_add_3d_heatmap.py")
       ELSE /\ log' = log \o <<"blender_add_3d_heatmap.py",
                                "SIMULATION COMPLETED SUCCESSFULLY">>
            /\ Exit(0)
    /\ UNCHANGED <<plVars, covVars, mainCommon, pipeVars, sceneVars, prog,
                   args, exists, failing, num_transmitters, xmlVars,
                   customVars, reportVars, roundVars>>

NextFull == CheckDependencies \/ Step1 \/ Step2 \/ Step3 \/ Step4 \/ Step5

SpecFull == InitFull /\ [][NextFull]_vars

\* The entries of the log.
Logged == {log[k] : k \in 1..Len(log)}

\* The failing tool was run.
FailingToolRan == failing \in Logged

\* C21: whenever an external tool invocation fails (the Step 2 conversion
\* with an output_scene.xml of an earlier run lying around included), the
\* workflow stops there, reports the captured stderr and exits with 1.
C21_ToolFailureStopsWorkflow ==
    (prog = FullSimulation /\ pc = "exited" /\ FailingToolRan)
        => /\ exit_code = 1
           /\ "stderr" \in Logged
           /\ "SIMULATION COMPLETED SUCCESSFULLY" \notin Logged

\* C22: count_transmitters returns the number of records of the file: for a
\* header-less file of n records it returns n, so that coverage_type
\* 'individual' with n >= 2 transmitters takes the individual-heatmap branch.
C22_CountsEveryRecord ==
    (prog = FullSimulation /\ file_exists)
        => /\ pc = "step4" => num_transmitters = Len(file)
           /\ (pc = "step5" /\ args.coverage_type = "individual"
                  /\ Len(file) >= 2)
                 => "blender_add_heatmaps.py" \in Logged

\* C24: a failure of Step 5 (blender_add_3d_heatmap.py exits non-zero) is not
\* fatal: the warning 'Failed to create 3D mesh, continuing without it' is
\* printed and the workflow goes on to the success summary, exit status 0.
C24_MeshFailureNotFatal ==
    (prog = FullSimulation /\ pc = "exited"
       /\ failing = "blender_add_3d_heatmap.py" /\ FailingToolRan)
        => /\ exit_code = 0
           /\ "Failed to create 3D mesh, continuing without it" \in Logged
           /\ "SIMULATION COMPLETED SUCCESSFULLY" \in Logged

\* The inputs a run with these arguments uses: the transmitter file given on
\* the command line and every script main may hand to blender or python.
UsedInputs == {BLEND_FILE_PATH, args.transmitter_file} \cup invoked_scripts

\* C29: if check_dependencies returned True, every input the workflow uses
\* later exists: the transmitter file passed to the simulation and every
\* helper script of either coverage type.
C29_CheckedInputsExist ==
    (prog = FullSimulation /\ pc = "step1") => UsedInputs \subseteq exists

----------------------------------------------------------------------------
(* SpecXml: sionna_full_simulation.correct_orientation *)

\* The children a <shape> is given: the mesh file, a transform written by the
\* exporter, and a material reference.
FilenameChild ==
    [tag |-> "string", name |-> "filename",
     value |-> <<"m", "/", "w", "a", "l", "l", ".", "p", "l", "y">>]
ExportedTransform ==
    [tag |-> "transform", name |-> "to_world", value |-> <<"matrix">>]
MaterialChild == [tag |-> "ref", name |-> "bsdf", value |-> <<"mat-wall">>]

ShapeChildren == {FilenameChild, ExportedTransform, MaterialChild}

\* The shapes tried: the exporter's id and any children, in any order.
Shapes ==
    {[id |-> <<"e", "l", "m", "_", "1">>, name |-> <<>>, children |-> c] :
        c \in UNION {[1..n -> ShapeChildren] : n \in 0..MaxChildren}}

\* The documents tried: root.findall(".//shape"), in document order.
Documents == UNION {[1..n -> Shapes] : n \in 0..MaxShapes}

\* os.path.basename
basename(path) == LET parts == split(path, "/") IN parts[Len(parts)]

\* os.path.splitext(...)[0]: the name up to its last dot.
splitext_root(name) ==
    LET parts == split(name, ".")
    IN  IF Len(parts) = 1 THEN name
        ELSE join(SubSeq(parts, 1, Len(parts) - 1), ".")

\* Lines 114-118 and 134-148: the transform that is inserted.
rotates == << <<"x", "90">>, <<"y", "0">>, <<"z", "-90">> >>

new_transform ==
    [tag |-> "transform", name |-> "to_world",
     value |-> [k \in 1..Len(rotates) |->
                   <<"rotate", rotates[k][1], "1", "angle", rotates[k][2]>>]
                 \o << <<"translate", "value", "0 0 0">> >>]

\* shape.find(tag): the place of the first direct child with that tag, 0 for
\* None.
find(children, tag) ==
    IF \E k \in 1..Len(children) : children[k].tag = tag
    THEN CHOOSE k \in 1..Len(children) :
             /\ children[k].tag = tag
             /\ \A j \in 1..(k - 1) : children[j].tag # tag
    ELSE 0

find_filename(children) ==
    IF \E k \in 1..Len(children) :
           children[k].tag = "string" /\ children[k].name = "filename"
    THEN CHOOSE k \in 1..Len(children) :
             /\ children[k].tag = "string" /\ children[k].name = "filename"
             /\ \A j \in 1..(k - 1) :
                    ~(children[j].tag = "string" /\ children[j].name = "filename")
    ELSE 0

\* shape.remove(child)
remove(children, k) ==
    SubSeq(children, 1, k - 1) \o SubSeq(children, k + 1, Len(children))

\* Lines 121-151: what the loop does to one shape.
correct_shape(shape) ==
    LET f == find_filename(shape.children)
        base_name == splitext_root(basename(shape.children[f].value))
        t == find(shape.children, "transform")
        kept == IF t = 0 THEN shape.children ELSE remove(shape.children, t)
    IN  [id |-> IF f = 0 THEN shape.id ELSE base_name,
         name |-> IF f = 0 THEN shape.name ELSE base_name,
         children |-> <<new_transform>> \o kept]

InitXml ==
    /\ prog = FullSimulation /\ pc = "parsed"
    /\ tree \in Documents
    /\ PLIdle /\ CovIdle /\ MainIdle /\ PipeIdle /\ SceneIdle /\ FullIdle
    /\ CustomIdle /\ ReportIdle /\ RoundIdle

\* correct_orientation, lines 103-153, on the file as it is; the file it
\* writes is the input of the next call.
CorrectOrientation ==
    /\ prog = FullSimulation /\ pc \in {"parsed", "corrected"}
    /\ tree' = [k \in 1..Len(tree) |-> correct_shape(tree[k])]
    /\ pc' = IF pc = "parsed" THEN "corrected" ELSE "corrected again"
    /\ UNCHANGED <<prog, plVars, covVars, mainVars, pipeVars, sceneVars,
                   fullVars, customVars, reportVars, roundVars>>

NextXml == CorrectOrientation

SpecXml == InitXml /\ [][NextXml]_vars

Transforms(shape) ==
    {k \in 1..Len(shape.children) : shape.children[k].tag = "transform"}

\* C30: after correct_orientation every <shape> has exactly one direct
\* <transform> child, its first child, named to_world, holding the rotations
\* x 90, y 0, z -90 and then the translate '0 0 0', whatever transforms the
\* shape had before; hence a second application changes nothing.
C30_OneTransformPerShape ==
    (prog = FullSimulation /\ pc \in {"corrected", "corrected again"})
        => \A k \in 1..Len(tree) :
               /\ Transforms(tree[k]) = {1}
               /\ tree[k].children[1] = new_transform

----------------------------------------------------------------------------
(* SpecDirect: sionna_direct_raytracing.load_transmitters_from_csv *)

DirectRaytracing == "sionna_direct_raytracing"

\* A header row, and a record whose name is a number.
LineHeader ==
    join(<< <<"n", "a", "m", "e">>, <<"x">>, <<"y">>, <<"z">> >>, ",")
LineNumbered == join(<< <<"7">>, <<"1">>, <<"2">>, <<"3">> >>, ",")

DirectLines == {LineA, LineB, LineNumbered, LineHeader, LineShort}

DirectFiles == UNION {[1..n -> DirectLines] : n \in 0..MaxRows}

\* str.replace(ch, '')
without(s, ch) == SelectSeq(s, LAMBDA c : c # ch)

\* str.isdigit(): at least one character, all of them digits.
isdigit(s) == s # <<>> /\ AllDigits(s)

\* Line 30: the first row counts as a header unless its first field is a
\* number.
has_header(first_row) ==
    ~isdigit(without(without(first_row[1], "."), "-"))

\* Lines 29-36: the first row.  next(reader) raises on an empty file, row[0]
\* on a row without fields, the unpacking on a row without exactly 4 fields,
\* float() on a field that is no number.
first_row_step(rows) ==
    IF rows = <<>> \/ rows[1] = <<>> THEN [transmitters |-> <<>>, raised |-> TRUE]
    ELSE IF has_header(rows[1]) THEN [transmitters |-> <<>>, raised |-> FALSE]
    ELSE IF Len(rows[1]) # 4 \/ ~floats(rows[1]).ok
    THEN [transmitters |-> <<>>, raised |-> TRUE]
    ELSE [transmitters |-> << <<rows[1][1], floats(rows[1]).value>> >>,
          raised |-> FALSE]

InitDirect ==
    /\ prog = DirectRaytracing /\ pc = "load_transmitters_from_csv"
    /\ mode = "" /\ ap_file_given = TRUE /\ file_exists = TRUE
    /\ readable \in BOOLEAN
    /\ file \in DirectFiles
    /\ row_num = 0 /\ transmitters = <<>> /\ errors = <<>>
    /\ is_valid = FALSE /\ raised = FALSE /\ success = FALSE
    /\ exit_code = -1 /\ created = {}
    /\ PLIdle /\ CovIdle /\ PipeIdle /\ SceneIdle /\ FullIdle /\ XmlIdle
    /\ CustomIdle /\ ReportIdle /\ RoundIdle

\* Lines 39-43: a later row; rows of fewer than 4 fields are passed over,
\* float() is not guarded.
direct_row(row, T) ==
    IF Len(row) >= 4
    THEN IF floats(row).ok
         THEN [transmitters |-> Append(T, <<row[1], floats(row).value>>),
               raised |-> FALSE]
         ELSE [transmitters |-> T, raised |-> TRUE]
    ELSE [transmitters |-> T, raised |-> FALSE]

\* Lines 23-36: open() and the first row.
DirectFirstRow ==
    /\ prog = DirectRaytracing /\ pc = "load_transmitters_from_csv"
    /\ IF ~readable
       THEN /\ raised' = TRUE /\ pc' = "raised"
            /\ UNCHANGED <<transmitters, row_num>>
       ELSE LET r == first_row_step([k \in 1..Len(file) |-> csv_row(file[k])])
            IN  /\ transmitters' = r.transmitters
                /\ raised' = r.raised
                /\ pc' = IF r.raised THEN "raised" ELSE "rows"
                /\ row_num' = 1
    /\ UNCHANGED <<prog, plVars, covVars, mode, ap_file_given, file_exists,
                   readable, file, errors, is_valid, success, exit_code,
                   created, pipeVars, sceneVars, fullVars, xmlVars,
                   customVars, reportVars, roundVars>>

\* Lines 39-43: one of the remaining rows.
DirectRow ==
    /\ prog = DirectRaytracing /\ pc = "rows"
    /\ row_num < Len(file)
    /\ LET r == direct_row(csv_row(file[row_num + 1]), transmitters)
       IN  /\ transmitters' = r.transmitters
           /\ raised' = r.raised
           /\ pc' = IF r.raised THEN "raised" ELSE "rows"
    /\ row_num' = row_num + 1
    /\ UNCHANGED <<prog, plVars, covVars, mode, ap_file_given, file_exists,
                   readable, file, errors, is_valid, success, exit_code,
                   created, pipeVars, sceneVars, fullVars, xmlVars,
                   customVars, reportVars, roundVars>>

\* Lines 45-46.
DirectReturn ==
    /\ prog = DirectRaytracing /\ pc = "rows"
    /\ row_num = Len(file)
    /\ pc' = "returned"
    /\ UNCHANGED <<prog, plVars, covVars, mainVars, pipeVars, sceneVars,
                   fullVars, xmlVars,
                   customVars, reportVars, roundVars>>

NextDirect == DirectFirstRow \/ DirectRow \/ DirectReturn

SpecDirect == InitDirect /\ [][NextDirect]_vars

\* The records of a header-less file, as written in it.
Records == {LineA, LineB, LineNumbered}

ExpectedRecord(line) ==
    IF line = LineNumbered THEN << <<"7">>, <<10, 20, 30>> >>
    ELSE ExpectedTransmitter(line)

HeaderLess(f) == f # <<>> /\ \A k \in 1..Len(f) : f[k] \in Records

\* C23: load_transmitters_from_csv returns every record of a header-less
\* name,x,y,z file in input order, the first row included: the header test
\* never drops a first row that is a transmitter.
C23_FirstRecordKept ==
    (prog = DirectRaytracing /\ pc \in {"returned", "raised"}
       /\ readable /\ HeaderLess(file))
        => /\ pc = "returned"
           /\ transmitters = [k \in 1..Len(file) |-> ExpectedRecord(file[k])]

----------------------------------------------------------------------------
(* SpecCustom: demo_with_custom_aps.main from the search for a scene on *)

\* find_available_scene_files, lines 214-219, in the order searched.
search_paths ==
    << "./simple_scene.xml",
       "/home/sionna/Documents/GitHub/wifi-cco/sionna-simulation/simple_scene.xml",
       "/home/sionna/Documents/GitHub/nvidia-sionna/docs/Blender/Floorplan/2F_No_AP.xml",
       "/home/sionna/Documents/GitHub/nvidia-sionna/docs/Blender/try_scene/untitled.xml" >>

\* A scene of the user's, outside the places searched.
ProvidedScene == "my_scene.xml"

sionna_script == "./sionna_coverage_map.py"

\* Lines 221-225: the paths searched that exist, in the order searched.
find_available_scene_files(there) ==
    SelectSeq(search_paths, LAMBDA path : path \in there)

\* Lines 308-318: the scene chosen once some searched path exists.  A
\* --mitsuba_file that was not given is None.
choose_scene(mitsuba_file, there, available) ==
    IF mitsuba_file # "" /\ mitsuba_file \in there
    THEN mitsuba_file
    ELSE available[1]

InitCustom ==
    /\ prog = CustomAps /\ pc = "find_available_scene_files"
    /\ args \in [mitsuba_file : {"", ProvidedScene, search_paths[2]},
                 run_simulation : BOOLEAN]
    /\ exists \in SUBSET ({search_paths[k] : k \in 1..Len(search_paths)}
                            \cup {ProvidedScene, sionna_script})
    /\ failing \in {"", sionna_script}
    /\ log = <<>> /\ num_transmitters = 0
    /\ mode = "" /\ ap_file_given = TRUE /\ file_exists = TRUE
    /\ readable = TRUE /\ file = <<LineA>> /\ row_num = 1
    /\ transmitters = <<ExpectedTransmitter(LineA)>> /\ errors = <<>>
    /\ is_valid = FALSE /\ raised = FALSE /\ success = FALSE
    /\ exit_code = -1 /\ created = {"output_dir", "ap_summary.txt"}
    /\ available_scenes = <<>> /\ scene_file = ""
    /\ PLIdle /\ CovIdle /\ PipeIdle /\ SceneIdle /\ XmlIdle
    /\ ReportIdle /\ RoundIdle

\* Lines 298-318 and 333-343: the search and the choice of the scene.
\* Without a searched path that exists no scene is chosen and nothing is
\* simulated.
FindSceneFiles ==
    /\ prog = CustomAps /\ pc = "find_available_scene_files"
    /\ available_scenes' = find_available_scene_files(exists)
    /\ IF available_scenes' # <<>>
       THEN /\ scene_file' =
                 choose_scene(args.mitsuba_file, exists, available_scenes')
            /\ pc' = IF args.run_simulation THEN "simulate_with_sionna"
                     ELSE "return"
       ELSE /\ scene_file' = scene_file
            /\ pc' = "return"
    /\ UNCHANGED <<prog, plVars, covVars, mainVars, pipeVars, sceneVars,
                   fullVars, xmlVars, reportVars, roundVars>>

\* Lines 321-328 and simulate_with_sionna, lines 133-200: the transmitters are
\* written and sionna_coverage_map.py is run on the scene handed over.
SimulateWithSionna ==
    /\ prog = CustomAps /\ pc = "simulate_with_sionna"
    /\ log' = Append(log, <<"simulate_with_sionna", scene_file>>)
    /\ created' = created \cup {"sionna_results", "transmitters.csv"}
    /\ success' = (sionna_script \in exists /\ failing # sionna_script)
    /\ pc' = "return"
    /\ UNCHANGED <<prog, plVars, covVars, mode, ap_file_given, file_exists,
                   readable, file, row_num, transmitters, errors, is_valid,
                   raised, exit_code, pipeVars, sceneVars, args, exists,
                   failing, num_transmitters, xmlVars, customVars,
                   reportVars, roundVars>>

\* Lines 345-349.
CustomReturn ==
    /\ prog = CustomAps /\ pc = "return"
    /\ Exit(0)
    /\ UNCHANGED <<prog, plVars, covVars, mainCommon, pipeVars, sceneVars,
                   fullVars, xmlVars, customVars, reportVars, roundVars>>

NextCustom == FindSceneFiles \/ SimulateWithSionna \/ CustomReturn

SpecCustom == InitCustom /\ [][NextCustom]_vars

ProvidedExists == args.mitsuba_file # "" /\ args.mitsuba_file \in exists

\* C25: when --mitsuba_file names an existing file, that file is the scene
\* used, whichever searched paths exist: at the end of main the scene chosen
\* is that file and, with --run_simulation, simulate_with_sionna was invoked
\* with exactly that file.
C25_ProvidedSceneUsed ==
    (prog = CustomAps /\ pc = "exited" /\ ProvidedExists)
        => /\ scene_file = args.mitsuba_file
           /\ args.run_simulation
                  => log = << <<"simulate_with_sionna", args.mitsuba_file>> >>

----------------------------------------------------------------------------
(* SpecReport: generate_coverage_report applied to bounded grids *)

MaxCells == 3

\* The thresholds of lines 294-297, in centi-dB.
ExcellentAbove == -5000
GoodAbove == -7000
FairAbove == -8500

\* Signal levels on both sides of every threshold and on the thresholds, and
\* the 0 dBm the maps start with.
Levels == {-9000, -8500, -8499, -7000, -6999, -5000, -4999, 0}

\* The conditions of lines 294-297 at one cell.
excellent_coverage(signal) == signal > ExcellentAbove

good_coverage_closed(signal) == signal >= GoodAbove /\ signal <= ExcellentAbove

good_coverage(signal) == signal > GoodAbove /\ signal <= ExcellentAbove

fair_coverage(signal) == signal > FairAbove /\ signal <= GoodAbove

poor_coverage(signal) == signal <= FairAbove

\* count / total_points * 100, the quotient kept exact as a fraction.
percent(n, total_points) == [num |-> n * 100, den |-> total_points]

\* Lines 294-306: np.sum counts the cells of each condition.
generate_coverage_report(signal) ==
    LET cells == DOMAIN signal
        excellent == Cardinality({c \in cells : excellent_coverage(signal[c])})
        good == Cardinality({c \in cells : good_coverage(signal[c])})
        fair == Cardinality({c \in cells : fair_coverage(signal[c])})
        poor == Cardinality({c \in cells : poor_coverage(signal[c])})
        total_points == Cardinality(cells)
    IN  [excellent_coverage |-> excellent,
         good_coverage |-> good,
         fair_coverage |-> fair,
         poor_coverage |-> poor,
         total_area_points |-> total_points,
         excellent_coverage_percent |-> percent(excellent, total_points),
         good_coverage_percent |-> percent(good, total_points),
         fair_coverage_percent |-> percent(fair, total_points),
         poor_coverage_percent |-> percent(poor, total_points),
         overall_usable_coverage_percent |->
             percent(excellent + good, total_points)]

InitReport ==
    /\ prog = "generate_coverage_report" /\ pc = "start"
    /\ \E n \in 1..MaxCells :
           /\ x_grid = [k \in 1..n |-> k - 1]
           /\ y_grid = <<0>>
           /\ signal_strength \in [(1..n) \X {1} -> Levels]
    /\ aps = <<>> /\ grid_resolution = 2 /\ best_ap = <<>> /\ i = 0
    /\ previous = <<>>
    /\ statistics = <<>> /\ individual = <<>>
    /\ PLIdle /\ MainIdle /\ PipeIdle /\ SceneIdle /\ FullIdle /\ XmlIdle
    /\ CustomIdle /\ RoundIdle

\* generate_coverage_report, lines 284-313.
GenerateCoverageReport ==
    /\ prog = "generate_coverage_report" /\ pc = "start"
    /\ statistics' = generate_coverage_report(signal_strength)
    /\ pc' = "reported"
    /\ UNCHANGED <<prog, plVars, covVars, mainVars, pipeVars, sceneVars,
                   fullVars, xmlVars, customVars, individual, roundVars>>

NextReport == GenerateCoverageReport

SpecReport == InitReport /\ [][NextReport]_vars

Reported == prog = "generate_coverage_report" /\ pc = "reported"

\* The number of the four conditions that hold of a level.
BucketsOf(signal) ==
    (IF excellent_coverage(signal) THEN 1 ELSE 0)
    + (IF good_coverage(signal) THEN 1 ELSE 0)
    + (IF fair_coverage(signal) THEN 1 ELSE 0)
    + (IF poor_coverage(signal) THEN 1 ELSE 0)

----------------------------------------------------------------------------
(* SpecVis: simulate_coverage_grid followed by create_coverage_visualizations *)

\* Line 244: the 2 x 3 panels of the individual plots.
axes == 6

\* Line 254: the obstacle count of the individual plots.
panel_obstacles_at(d) == IF d > OneWallBeyond THEN 1 ELSE 0

\* Lines 252-256: the received power drawn in the panel of one transmitter.
panel_received_power(ap, X, Y) ==
    LET d == distances(ap, X, Y)
    IN  ap.power_dbm
          - calculate_path_loss(d, ap.frequency, panel_obstacles_at(d))

\* create_coverage_visualizations, lines 173-290: the maps are drawn from the
\* data handed over; only the panels of lines 247-258 compute anything, one
\* for each of the first six transmitters.
CreateCoverageVisualizations ==
    /\ prog = "simulate_coverage_grid" /\ pc = "done"
    /\ individual' =
           [k \in 1..(IF Len(aps) < axes THEN Len(aps) ELSE axes) |->
               [c \in Cells |->
                   panel_received_power(aps[k], x_grid[c[1]], y_grid[c[2]])]]
    /\ pc' = "visualized"
    /\ UNCHANGED <<prog, plVars, covVars, mainVars, pipeVars, sceneVars,
                   fullVars, xmlVars, customVars, statistics, roundVars>>

NextVis == NextCov \/ CreateCoverageVisualizations

SpecVis == InitCov /\ [][NextVis]_vars

\* C27: for every transmitter and every grid cell, the received power of the
\* individual plot in create_coverage_visualizations equals the received power
\* simulate_coverage_grid computed for that transmitter at that cell.
C27_PanelsEqualGridEstimates ==
    (prog = "simulate_coverage_grid" /\ pc = "visualized")
        => \A k \in 1..Len(aps) : \A c \in Cells :
               individual[k][c]
                   = received_power(aps[k], x_grid[c[1]], y_grid[c[2]])

----------------------------------------------------------------------------
(* SpecRound: validate_ap_coordinates, prepare_sionna_simulation and
   validate_ap_coordinates on the file written *)

\* Records whose name is a quoted field: "A,B",1,2,3 and "A""B",1,2,3 and
\* " A ",2.5,1,3.
LineQuotedComma ==
    <<Quote, "A", ",", "B", Quote>> \o <<",", "1", ",", "2", ",", "3">>
LineQuotedQuote ==
    <<Quote, "A", Quote, Quote, "B", Quote>> \o <<",", "1", ",", "2", ",", "3">>
LineQuotedSpaces ==
    <<Quote, " ", "A", " ", Quote>> \o <<",", "2", ".", "5", ",", "1", ",", "3">>

RoundLines ==
    {LineA, LineB, LineQuotedComma, LineQuotedQuote, LineQuotedSpaces,
     LineBadCoord}

RoundFiles == UNION {[1..n -> RoundLines] : n \in 0..MaxRows}

\* str() of a non-negative int.
str_digit(d) == CHOOSE ch \in Digits : DigitValue(ch) = d

RECURSIVE str_int(_)
str_int(n) ==
    IF n < 10 THEN <<str_digit(n)>>
    ELSE Append(str_int(n \div 10), str_digit(n % 10))

\* str() of a float given in tenths, as the f-string of line 91 formats it:
\* 1.0 is "1.0", 2.5 is "2.5".
str_float(v) ==
    LET mag == IF v < 0 THEN -v ELSE v
    IN  (IF v < 0 THEN <<"-">> ELSE <<>>)
          \o str_int(mag \div 10) \o <<".">> \o str_int(mag % 10)

\* Lines 89-91: one line "name,x,y,z" for each transmitter, the name and the
\* numbers put between commas as they are.
write_transmitters(T) ==
    [k \in 1..Len(T) |->
        T[k][1] \o <<",">> \o str_float(T[k][2][1]) \o <<",">>
                \o str_float(T[k][2][2]) \o <<",">> \o str_float(T[k][2][3])]

\* validate_ap_coordinates, lines 43-57: the loop from row n on.  (A value
\* drawn from a one-element set is computed once.)
RECURSIVE validate_rows(_, _, _, _)
validate_rows(lines, n, T, E) ==
    IF n > Len(lines) THEN [transmitters |-> T, errors |-> E]
    ELSE CHOOSE result \in
             {validate_rows(lines, n + 1, r.transmitters, r.errors) :
                  r \in {validate_row(row, n, T, E) :
                             row \in {csv_row(lines[n])}}} : TRUE

\* Lines 59-62: the summary diagnostic and the triple returned.
validate_return(r) ==
    LET E == validate_summary(r.transmitters, r.errors)
    IN  [is_valid |-> E = <<>>, transmitters |-> r.transmitters, errors |-> E]

\* validate_ap_coordinates, lines 34-62, on a file that exists and can be read.
validate_ap_coordinates(lines) ==
    CHOOSE result \in
        {validate_return(r) : r \in {validate_rows(lines, 1, <<>>, <<>>)}} : TRUE

InitRound ==
    /\ prog = Pipeline /\ pc = "validate"
    /\ mode = "" /\ ap_file_given = TRUE /\ file_exists = TRUE
    /\ readable = TRUE
    /\ file \in RoundFiles
    /\ row_num = 0 /\ transmitters = <<>> /\ errors = <<>>
    /\ is_valid = FALSE /\ raised = FALSE /\ success = FALSE
    /\ exit_code = -1 /\ created = {}
    /\ sionna_transmitter_file = <<>> /\ revalidated = <<>>
    /\ PLIdle /\ CovIdle /\ PipeIdle /\ SceneIdle /\ FullIdle /\ XmlIdle
    /\ CustomIdle /\ ReportIdle

\* validate_ap_coordinates on the file given.
RoundValidate ==
    /\ prog = Pipeline /\ pc = "validate"
    /\ \E r \in {validate_ap_coordinates(file)} :
           /\ is_valid' = r.is_valid
           /\ transmitters' = r.transmitters
           /\ errors' = r.errors
           /\ pc' = IF r.is_valid THEN "prepare" ELSE "rejected"
    /\ row_num' = Len(file)
    /\ UNCHANGED <<prog, plVars, covVars, mode, ap_file_given, file_exists,
                   readable, file, raised, success, exit_code, created,
                   pipeVars, sceneVars, fullVars, xmlVars, customVars,
                   reportVars, roundVars>>

\* prepare_sionna_simulation, lines 85-91, on the transmitters accepted.
RoundPrepare ==
    /\ prog = Pipeline /\ pc = "prepare"
    /\ sionna_transmitter_file' = write_transmitters(transmitters)
    /\ created' = created \cup {"output_dir", "transmitters.csv"}
    /\ pc' = "prepared"
    /\ UNCHANGED <<prog, plVars, covVars, mode, ap_file_given, file_exists,
                   readable, file, row_num, transmitters, errors, is_valid,
                   raised, success, exit_code, pipeVars, sceneVars, fullVars,
                   xmlVars, customVars, reportVars, revalidated>>

\* validate_ap_coordinates on the transmitters.csv written.
RoundRevalidate ==
    /\ prog = Pipeline /\ pc = "prepared"
    /\ revalidated' = validate_ap_coordinates(sionna_transmitter_file)
    /\ pc' = "revalidated"
    /\ UNCHANGED <<prog, plVars, covVars, mainVars, pipeVars, sceneVars,
                   fullVars, xmlVars, customVars, reportVars,
                   sionna_transmitter_file>>

NextRound == RoundValidate \/ RoundPrepare \/ RoundRevalidate

SpecRound == InitRound /\ [][NextRound]_vars

\* C28: for every transmitter list that validate_ap_coordinates accepted,
\* validate_ap_coordinates on the transmitters.csv that
\* prepare_sionna_simulation wrote from it returns (True, that list, []),
\* also when a name holds a comma or a double quote.
C28_WrittenFileValidatesToSameList ==
    (prog = Pipeline /\ pc = "revalidated")
        => revalidated = [is_valid |-> TRUE, transmitters |-> transmitters,
                          errors |-> <<>>]

====
